---- MODULE Spec2Model ----
(***************************************************************************)
(* mixmaster: pull-based Reader composition.                               *)
(*                                                                         *)
(* The module models                                                       *)
(*   - ArrayReader, FlatStreamReader, toReader and readToArray of the      *)
(*     stack-based library (src/unnamed/part_000),                         *)
(*   - the ArrayReader of the single-slot library (src/lib/index.js),      *)
(*   - the remainder-based matchTransform of src/index.js (lines 299-335). *)
(*                                                                         *)
(* A JavaScript value is a record [k, id, sub]: k is what the code's type  *)
(* tests see (typeof, truthiness, Array.isArray, the then / read /         *)
(* getReader capabilities), id tells values of one kind apart, and sub     *)
(* holds what the value contains or produces (the elements of an array,    *)
(* the values a Reader or stream yields, the result of a function, the     *)
(* value a promise settles with).                                          *)
(***************************************************************************)
EXTENDS Integers, Sequences, FiniteSets, TLC

VARIABLES
    variant,                \* "stack": src/unnamed/part_000, "lib": src/lib/index.js
    top,                    \* the Reader being consumed: "flat" (FlatStreamReader), "plain" (toReader(input)),
                            \* "eval" (evalTransform(ctx)(toReader(input)) of src/index.js)
    input,                  \* the value handed to the constructor / to toReader
    reader,                 \* FlatStreamReader._reader (the base Reader)
    ctx,                    \* FlatStreamReader._ctx
    subStreamReaderStack,   \* FlatStreamReader._subStreamReaderStack; evalTransform: activeStreamReader
                            \* (<<>> is null)
    pc,                     \* "idle", "read" (low-level read pending), "await" (promise pending), "settled"
    cur,                    \* the promise a pending read() waits for
    res,                    \* how the last read() settled
    accum,                  \* readToArray: accum
    pumpState,              \* readToArray's promise: "pumping", "resolved", "rejected"
    pumpErr,                \* what readToArray rejected with
    nreads,                 \* read() calls issued by readToArray's pump
    calls,                  \* function chunks invoked so far, with the argument passed
    exhausted,              \* a read() of the consumed Reader has returned done=true
    rejErr,                 \* errors the awaited promises rejected with
    ncancel,                \* cancel() calls made on the consumed Reader
    cancelRet,              \* outcome of the last cancel() call
    mt,                     \* state of the remainder-based matchTransform pipeline
    consumer,               \* who reads the Reader: "readToArray", "readToString", "stream"
    decoder,                \* readToString: the bytes its TextDecoder holds back
    controller,             \* readerToStream: the controller of the ReadableStream
    pipe,                   \* state of a transformStream call
    mo                      \* state of the matcher-object matchTransform pipeline
vars == <<variant, top, input, reader, ctx, subStreamReaderStack, pc, cur, res, accum,
          pumpState, pumpErr, nreads, calls, exhausted, rejErr, ncancel, cancelRet, mt,
          consumer, decoder, controller, pipe, mo>>

flatVars == <<variant, top, input, reader, ctx, subStreamReaderStack, pc, cur, res, accum,
              pumpState, pumpErr, nreads, calls, exhausted, rejErr, ncancel, cancelRet,
              consumer, decoder>>

(***************************************************************************)
(* Values                                                                  *)
(***************************************************************************)
Str(s) == [k |-> "str", id |-> s, sub |-> <<>>]
Null == [k |-> "falsy", id |-> "null", sub |-> <<>>]
Undefined == [k |-> "falsy", id |-> "undefined", sub |-> <<>>]
Err(e) == [k |-> "error", id |-> e, sub |-> <<>>]
Fn(r) == [k |-> "fn", id |-> "f", sub |-> <<r>>]
Resolving(v) == [k |-> "promise", id |-> "resolve", sub |-> <<v>>]
Rejecting(e) == [k |-> "promise", id |-> "reject", sub |-> <<Err(e)>>]
Arr(items) == [k |-> "arr", id |-> "", sub |-> items]
ReaderObj(cm, items) == [k |-> "reader", id |-> cm, sub |-> items]
StreamObj(items) == [k |-> "stream", id |-> "", sub |-> items]
\* An object with more than one of the capabilities the code tests for; caps
\* names them. As an array, a Reader or a stream it holds items, as a promise
\* it resolves to the first of them.
Hybrid(caps, items) == [k |-> "hybrid", id |-> caps, sub |-> items]
Zero == [k |-> "falsy", id |-> "0", sub |-> <<>>]
False == [k |-> "falsy", id |-> "false", sub |-> <<>>]
Obj == [k |-> "other", id |-> "obj", sub |-> <<>>]
\* A byte buffer; a byte is written as its two hexadecimal digits.
Bytes(bs) == [k |-> "bytes", id |-> "", sub |-> bs]

\* The type tests of _handleReadRes and toReader.
IsString(c) == c.k = "str"
IsFunction(c) == c.k = "fn"
Truthy(c) == c.k # "falsy" /\ ~(c.k = "str" /\ c.id = "")
IsArray(c) ==
    c.k = "arr" \/ (c.k = "hybrid" /\ c.id \in {"array+read", "array+getReader", "array+then"})
HasThen(c) ==
    c.k = "promise" \/ (c.k = "hybrid" /\ c.id \in {"then+read", "then+getReader", "array+then"})
HasRead(c) ==
    c.k = "reader" \/ (c.k = "hybrid" /\ c.id \in {"read+getReader", "array+read", "then+read"})
HasGetReader(c) ==
    c.k = "stream"
    \/ (c.k = "hybrid" /\ c.id \in {"read+getReader", "array+getReader", "then+getReader"})

\* chunk(this._ctx): the function's result.
Invoke(f, arg) == f.sub[1]

readerReturn(value, done) == [value |-> value, done |-> done, fail |-> FALSE]
\* A read() whose promise rejects with e.
Rejected(e) == [value |-> e, done |-> FALSE, fail |-> TRUE]

(***************************************************************************)
(* Readers. A Reader object is a record: cls its class, arr the sequence   *)
(* it reads, index / offset its cursor fields (offset is <<>> while the    *)
(* field is undefined), cancels the reasons its cancel() was called with,  *)
(* cm what its cancel() does.                                              *)
(***************************************************************************)
StackArrayReader(arr) ==
    [cls |-> "ArrayReader", arr |-> arr, index |-> 0, offset |-> <<>>,
     cancels |-> <<>>, cm |-> "ok"]

LibArrayReader(arr) ==
    [cls |-> "ArrayReader", arr |-> arr, index |-> 0, offset |-> <<Len(arr) - 1>>,
     cancels |-> <<>>, cm |-> "ok"]

ArrayReader(arr) == IF variant = "lib" THEN LibArrayReader(arr) ELSE StackArrayReader(arr)

\* A Reader supplied by the caller, and the Reader of a stream: they yield
\* their values in order and then done.
AsReader(c) ==
    [cls |-> "Reader", arr |-> c.sub, index |-> 0, offset |-> <<>>,
     cancels |-> <<>>, cm |-> IF c.k = "reader" THEN c.id ELSE "ok"]

GetReader(c) ==
    [cls |-> "StreamReader", arr |-> c.sub, index |-> 0, offset |-> <<>>,
     cancels |-> <<>>, cm |-> "ok"]

\* Mutant: a falsy element is taken for the end of the array.
StackArrayReaderRead_StopsAtFalsy(r) ==
    IF r.index < Len(r.arr) /\ Truthy(r.arr[r.index + 1])
    THEN [r |-> [r EXCEPT !.index = @ + 1], res |-> readerReturn(r.arr[r.index + 1], FALSE)]
    ELSE [r |-> r, res |-> readerReturn(Undefined, TRUE)]

\* Mutant: the cursor is rewound when the end is reported.
StackArrayReaderRead_Rewinds(r) ==
    IF r.index < Len(r.arr)
    THEN [r |-> [r EXCEPT !.index = @ + 1], res |-> readerReturn(r.arr[r.index + 1], FALSE)]
    ELSE [r |-> [r EXCEPT !.index = 0], res |-> readerReturn(Undefined, TRUE)]

\* read() of a Reader r: the Reader afterwards and the result.
StackArrayReaderRead(r) ==
    IF r.index < Len(r.arr)
    THEN [r |-> [r EXCEPT !.index = @ + 1], res |-> readerReturn(r.arr[r.index + 1], FALSE)]
    ELSE [r |-> r, res |-> readerReturn(Undefined, TRUE)]

LibArrayReaderRead(r) ==
    IF r.offset[1] >= 0
    THEN [r |-> [r EXCEPT !.offset = <<r.offset[1] - 1>>],
          res |-> readerReturn(r.arr[r.offset[1] + 1], FALSE)]
    ELSE [r |-> r, res |-> readerReturn(Undefined, TRUE)]

EnvReaderRead(r) ==
    IF r.index < Len(r.arr)
    THEN [r |-> [r EXCEPT !.index = @ + 1], res |-> readerReturn(r.arr[r.index + 1], FALSE)]
    ELSE [r |-> r, res |-> readerReturn(Undefined, TRUE)]

ReaderRead(r) ==
    IF r.cls = "ArrayReader"
    THEN (IF variant = "lib" THEN LibArrayReaderRead(r) ELSE StackArrayReaderRead(r))
    ELSE EnvReaderRead(r)

\* Mutant: the first value is read when the Reader is made.
toReader_ReadsAhead(s) ==
    IF Truthy(s) /\ HasRead(s) THEN ReaderRead(AsReader(s)).r
    ELSE IF Truthy(s) /\ HasGetReader(s) THEN ReaderRead(GetReader(s)).r
    ELSE IF Truthy(s) /\ IsArray(s) THEN ReaderRead(ArrayReader(s.sub)).r
    ELSE ReaderRead(ArrayReader(<<s>>)).r

\* Mutant: getReader is looked for before read.
toReader_StreamFirst(s) ==
    IF Truthy(s) /\ HasGetReader(s) THEN GetReader(s)
    ELSE IF Truthy(s) /\ HasRead(s) THEN AsReader(s)
    ELSE IF Truthy(s) /\ IsArray(s) THEN ArrayReader(s.sub)
    ELSE ArrayReader(<<s>>)

toReader(s) ==
    IF Truthy(s) /\ HasRead(s) THEN AsReader(s)
    ELSE IF Truthy(s) /\ HasGetReader(s) THEN GetReader(s)
    ELSE IF Truthy(s) /\ IsArray(s) THEN ArrayReader(s.sub)
    ELSE ArrayReader(<<s>>)

(***************************************************************************)
(* FlatStreamReader (src/unnamed/part_000)                                 *)
(***************************************************************************)
\* What one callback of read() leads to: the read settles ("return"), read()
\* is entered again ("read"), or a promise is awaited ("await").
Outcome(kind, rd, stk, cs, r, p) ==
    [kind |-> kind, reader |-> rd, stack |-> stk, calls |-> cs, res |-> r, p |-> p]

\* Mutant: a single slot instead of a stack, the outer frame is forgotten.
PushFrame_SingleSlot(stk, frame) == <<frame>>

PushFrame(stk, frame) == Append(stk, frame)

PopFrame(stk) == SubSeq(stk, 1, Len(stk) - 1)

TopFrame(stk) == stk[Len(stk)]

\* chunk = chunk(this._ctx)
CallArg == ctx

CallChunk(f) == Invoke(f, CallArg)

CallLog(cs, f) == Append(cs, [f |-> f, arg |-> CallArg])

\* Mutant: read and getReader are looked for before the array and the
\* promise tests.
Classify_CapabilitiesFirst(rd, stk, cs, r, chunk) ==
    IF Truthy(chunk) /\ HasRead(chunk)
    THEN Outcome("read", rd, PushFrame(stk, AsReader(chunk)), cs, r, Undefined)
    ELSE IF Truthy(chunk) /\ HasGetReader(chunk)
    THEN Outcome("read", rd, PushFrame(stk, GetReader(chunk)), cs, r, Undefined)
    ELSE IF Truthy(chunk) /\ IsArray(chunk)
    THEN Outcome("read", rd, PushFrame(stk, ArrayReader(chunk.sub)), cs, r, Undefined)
    ELSE IF Truthy(chunk) /\ HasThen(chunk)
    THEN Outcome("await", rd, stk, cs, r, chunk)
    ELSE Outcome("return", rd, stk, cs, readerReturn(chunk, FALSE), Undefined)

\* Mutant: a falsy chunk is taken for the end of the stream.
Classify_FalsyIsDone(rd, stk, cs, r, chunk) ==
    IF ~Truthy(chunk) THEN Outcome("return", rd, stk, cs, readerReturn(Undefined, TRUE), Undefined)
    ELSE IF IsArray(chunk)
    THEN Outcome("read", rd, PushFrame(stk, ArrayReader(chunk.sub)), cs, r, Undefined)
    ELSE IF HasThen(chunk)
    THEN Outcome("await", rd, stk, cs, r, chunk)
    ELSE IF HasRead(chunk)
    THEN Outcome("read", rd, PushFrame(stk, AsReader(chunk)), cs, r, Undefined)
    ELSE IF HasGetReader(chunk)
    THEN Outcome("read", rd, PushFrame(stk, GetReader(chunk)), cs, r, Undefined)
    ELSE Outcome("return", rd, stk, cs, readerReturn(chunk, FALSE), Undefined)

\* The classification of a chunk that is not a string, after a function chunk
\* has been called.
Classify(rd, stk, cs, r, chunk) ==
    IF Truthy(chunk) /\ IsArray(chunk)
    THEN Outcome("read", rd, PushFrame(stk, ArrayReader(chunk.sub)), cs, r, Undefined)
    ELSE IF Truthy(chunk) /\ HasThen(chunk)
    THEN Outcome("await", rd, stk, cs, r, chunk)
    ELSE IF Truthy(chunk) /\ HasRead(chunk)
    THEN Outcome("read", rd, PushFrame(stk, AsReader(chunk)), cs, r, Undefined)
    ELSE IF Truthy(chunk) /\ HasGetReader(chunk)
    THEN Outcome("read", rd, PushFrame(stk, GetReader(chunk)), cs, r, Undefined)
    ELSE Outcome("return", rd, stk, cs, readerReturn(chunk, FALSE), Undefined)

\* Mutant: an empty string is passed over and the next chunk is read.
handleReadRes_SkipsEmptyString(rd, stk, cs, r) ==
    IF r.done THEN Outcome("return", rd, stk, cs, r, Undefined)
    ELSE IF IsString(r.value)
    THEN (IF Truthy(r.value) THEN Outcome("return", rd, stk, cs, r, Undefined)
          ELSE Outcome("read", rd, stk, cs, r, Undefined))
    ELSE IF IsFunction(r.value)
    THEN Classify(rd, stk, CallLog(cs, r.value), r, CallChunk(r.value))
    ELSE Classify(rd, stk, cs, r, r.value)

handleReadRes(rd, stk, cs, r) ==
    IF r.done THEN Outcome("return", rd, stk, cs, r, Undefined)
    ELSE IF IsString(r.value) THEN Outcome("return", rd, stk, cs, r, Undefined)
    ELSE IF IsFunction(r.value)
    THEN Classify(rd, stk, CallLog(cs, r.value), r, CallChunk(r.value))
    ELSE Classify(rd, stk, cs, r, r.value)

\* Mutant: the end of a nested source is taken for the end of the input.
FlatRead_DoneWithFrame(rd, stk, cs) ==
    IF Len(stk) > 0
    THEN LET rr == ReaderRead(TopFrame(stk))
         IN  IF rr.res.done
             THEN Outcome("return", rd, PopFrame(stk), cs, rr.res, Undefined)
             ELSE handleReadRes(rd, [stk EXCEPT ![Len(stk)] = rr.r], cs, rr.res)
    ELSE LET rr == ReaderRead(rd)
         IN  handleReadRes(rr.r, stk, cs, rr.res)

\* Mutant: a frame is dropped as soon as it has yielded a value.
FlatRead_PopsAfterValue(rd, stk, cs) ==
    IF Len(stk) > 0
    THEN LET rr == ReaderRead(TopFrame(stk))
         IN  IF rr.res.done
             THEN Outcome("read", rd, PopFrame(stk), cs, rr.res, Undefined)
             ELSE handleReadRes(rd, PopFrame(stk), cs, rr.res)
    ELSE LET rr == ReaderRead(rd)
         IN  handleReadRes(rr.r, stk, cs, rr.res)

\* Mutant: two values are read from the base Reader for one read(), the
\* second one is held back.
FlatRead_ReadsAhead(rd, stk, cs) ==
    IF Len(stk) > 0
    THEN LET rr == ReaderRead(TopFrame(stk))
         IN  IF rr.res.done
             THEN Outcome("read", rd, PopFrame(stk), cs, rr.res, Undefined)
             ELSE handleReadRes(rd, [stk EXCEPT ![Len(stk)] = rr.r], cs, rr.res)
    ELSE LET rr == ReaderRead(rd)
         IN  handleReadRes(ReaderRead(rr.r).r, stk, cs, rr.res)

\* Mutant: a frame that is done stays on the stack and is read again.
FlatRead_KeepsDoneFrame(rd, stk, cs) ==
    IF Len(stk) > 0
    THEN LET rr == ReaderRead(TopFrame(stk))
         IN  IF rr.res.done
             THEN Outcome("read", rd, stk, cs, rr.res, Undefined)
             ELSE handleReadRes(rd, [stk EXCEPT ![Len(stk)] = rr.r], cs, rr.res)
    ELSE LET rr == ReaderRead(rd)
         IN  handleReadRes(rr.r, stk, cs, rr.res)

\* FlatStreamReader.read(): the low-level read and its callback.
FlatRead(rd, stk, cs) ==
    IF Len(stk) > 0
    THEN LET rr == ReaderRead(TopFrame(stk))
         IN  IF rr.res.done
             THEN Outcome("read", rd, PopFrame(stk), cs, rr.res, Undefined)
             ELSE handleReadRes(rd, [stk EXCEPT ![Len(stk)] = rr.r], cs, rr.res)
    ELSE LET rr == ReaderRead(rd)
         IN  handleReadRes(rr.r, stk, cs, rr.res)

\* read() of toReader(input) itself.
PlainRead(rd, stk, cs) ==
    LET rr == ReaderRead(rd)
    IN  Outcome("return", rr.r, stk, cs, rr.res, Undefined)

\* Mutant: a rejection is caught and its error handed on as a value.
ThenOutcome_SwallowsRejection(rd, stk, cs, r, p) ==
    Outcome("return", rd, stk, cs, readerReturn(p.sub[1], FALSE), Undefined)

\* The continuation of chunk.then(val => ...): the promise fulfils with val,
\* or rejects and the read() fails with the same error.
ThenOutcome(rd, stk, cs, r, p) ==
    IF p.id = "reject"
    THEN Outcome("return", rd, stk, cs, Rejected(p.sub[1]), Undefined)
    ELSE handleReadRes(rd, stk, cs, readerReturn(p.sub[1], FALSE))

PcOf(o) == IF o.kind = "return" THEN "settled" ELSE o.kind

Apply(o) ==
    /\ reader' = o.reader
    /\ subStreamReaderStack' = o.stack
    /\ calls' = o.calls
    /\ pc' = PcOf(o)
    /\ res' = IF o.kind = "return" THEN o.res ELSE res
    /\ cur' = IF o.kind = "await" THEN o.p ELSE cur
    /\ exhausted' = (exhausted \/ (o.kind = "return" /\ o.res.done))

\* cancel() of one Reader: the Reader afterwards, whether the call threw, and
\* what it returned.
CancelToken == [k |-> "other", id |-> "cancelled", sub |-> <<>>]

ReaderCancel(r, reason) ==
    [r |-> IF r.cls = "ArrayReader"
           THEN [r EXCEPT !.cancels = Append(@, reason), !.offset = <<0 - 1>>]
           ELSE [r EXCEPT !.cancels = Append(@, reason)],
     threw |-> (r.cm = "throws"),
     value |-> IF r.cls = "ArrayReader" THEN Undefined
               ELSE IF r.cls = "StreamReader" THEN Resolving(Undefined)
               ELSE IF r.cm = "rejects" THEN Rejecting("cancel")
               ELSE IF r.cm = "throws" THEN Err("cancel")
               ELSE CancelToken]

\* this._subStreamReaderStack.map(reader => reader.cancel(reason)), from
\* frame i on: a call that throws ends the map.
RECURSIVE CancelFrames(_, _, _)
CancelFrames(stk, reason, i) ==
    IF i > Len(stk) THEN [stack |-> stk, threw |-> FALSE]
    ELSE LET c == ReaderCancel(stk[i], reason)
         IN  IF c.threw THEN [stack |-> [stk EXCEPT ![i] = c.r], threw |-> TRUE]
             ELSE CancelFrames([stk EXCEPT ![i] = c.r], reason, i + 1)

\* Mutant: only the innermost frame is cancelled.
FlatCancel_TopFrameOnly(rd, stk, reason) ==
    LET n  == Len(stk)
        t  == ReaderCancel(stk[n], reason)
        b  == ReaderCancel(rd, reason)
    IN  IF n = 0 THEN [reader |-> b.r, stack |-> stk, threw |-> b.threw, value |-> b.value]
        ELSE IF t.threw
        THEN [reader |-> rd, stack |-> [stk EXCEPT ![n] = t.r], threw |-> TRUE,
              value |-> Err("cancel")]
        ELSE [reader |-> b.r, stack |-> [stk EXCEPT ![n] = t.r], threw |-> b.threw,
              value |-> b.value]

\* FlatStreamReader.cancel(reason)
FlatCancel(rd, stk, reason) ==
    LET fs == CancelFrames(stk, reason, 1)
        b  == ReaderCancel(rd, reason)
    IN  IF fs.threw
        THEN [reader |-> rd, stack |-> fs.stack, threw |-> TRUE, value |-> Err("cancel")]
        ELSE [reader |-> b.r, stack |-> fs.stack, threw |-> b.threw, value |-> b.value]

PlainCancel(rd, stk, reason) ==
    LET b == ReaderCancel(rd, reason)
    IN  [reader |-> b.r, stack |-> stk, threw |-> b.threw, value |-> b.value]

(***************************************************************************)
(* FlatStreamReader of src/lib/index.js: one slot, _subStreamReader, in    *)
(* place of the stack. The stack of the model holds the slot's Reader, or  *)
(* nothing while the slot is null.                                         *)
(***************************************************************************)
\* this._subStreamReader = frame
SetSubStreamReader(stk, frame) == <<frame>>

\* The classification of a chunk that is not a string: an array, a promise,
\* a stream; there is no test for a Reader.
LibClassify(rd, stk, cs, r, chunk) ==
    IF Truthy(chunk) /\ IsArray(chunk)
    THEN Outcome("read", rd, SetSubStreamReader(stk, ArrayReader(chunk.sub)), cs, r, Undefined)
    ELSE IF Truthy(chunk) /\ HasThen(chunk)
    THEN Outcome("await", rd, stk, cs, r, chunk)
    ELSE IF Truthy(chunk) /\ HasGetReader(chunk)
    THEN Outcome("read", rd, SetSubStreamReader(stk, GetReader(chunk)), cs, r, Undefined)
    ELSE Outcome("return", rd, stk, cs, readerReturn(chunk, FALSE), Undefined)

LibHandleReadRes(rd, stk, cs, r) ==
    IF r.done THEN Outcome("return", rd, stk, cs, r, Undefined)
    ELSE IF IsString(r.value) THEN Outcome("return", rd, stk, cs, r, Undefined)
    ELSE IF IsFunction(r.value)
    THEN LibClassify(rd, stk, CallLog(cs, r.value), r, CallChunk(r.value))
    ELSE LibClassify(rd, stk, cs, r, r.value)

\* read(): the low-level read and its callback.
LibFlatRead(rd, stk, cs) ==
    IF Len(stk) > 0
    THEN LET rr == ReaderRead(stk[1])
         IN  IF rr.res.done
             THEN Outcome("read", rd, <<>>, cs, rr.res, Undefined)
             ELSE LibHandleReadRes(rd, <<rr.r>>, cs, rr.res)
    ELSE LET rr == ReaderRead(rd)
         IN  LibHandleReadRes(rr.r, stk, cs, rr.res)

LibThenOutcome(rd, stk, cs, r, p) ==
    IF p.id = "reject"
    THEN Outcome("return", rd, stk, cs, Rejected(p.sub[1]), Undefined)
    ELSE LibHandleReadRes(rd, stk, cs, readerReturn(p.sub[1], FALSE))

\* cancel(reason): the slot's Reader, when there is one, then the base Reader.
LibFlatCancel(rd, stk, reason) ==
    LET a == IF Len(stk) > 0 THEN ReaderCancel(stk[1], reason)
             ELSE [r |-> rd, threw |-> FALSE, value |-> Undefined]
        b == ReaderCancel(rd, reason)
    IN  IF a.threw
        THEN [reader |-> rd, stack |-> <<a.r>>, threw |-> TRUE, value |-> Err("cancel")]
        ELSE [reader |-> b.r, stack |-> IF Len(stk) > 0 THEN <<a.r>> ELSE stk,
              threw |-> b.threw, value |-> b.value]

(* evalTransform (src/index.js, 158-208): the Reader makeReader returns.   *)
(* The stack holds activeStreamReader, when there is one.                  *)
(***************************************************************************)
\* chunk._readableStreamController: the chunk is a ReadableStream.
IsReadableStream(c) == c.k = "stream"

\* Mutant: a function read from the active sub-stream is called, as one read
\* from the input is.
evalTransformRead_EvaluatesSubStream(rd, stk, cs) ==
    IF Len(stk) > 0
    THEN LET rr == ReaderRead(stk[1])
         IN  IF rr.res.done
             THEN Outcome("read", rd, <<>>, cs, rr.res, Undefined)
             ELSE IF IsFunction(rr.res.value)
             THEN Outcome("return", rd, <<rr.r>>, CallLog(cs, rr.res.value),
                          readerReturn(CallChunk(rr.res.value), FALSE), Undefined)
             ELSE Outcome("return", rd, <<rr.r>>, cs, rr.res, Undefined)
    ELSE LET rr    == ReaderRead(rd)
             isFn  == ~rr.res.done /\ IsFunction(rr.res.value)
             chunk == IF isFn THEN CallChunk(rr.res.value) ELSE rr.res.value
             cs2   == IF isFn THEN CallLog(cs, rr.res.value) ELSE cs
         IN  IF rr.res.done THEN Outcome("return", rr.r, stk, cs, rr.res, Undefined)
             ELSE IF Truthy(chunk) /\ IsReadableStream(chunk)
             THEN Outcome("read", rr.r, <<GetReader(chunk)>>, cs2, rr.res, Undefined)
             ELSE IF Truthy(chunk) /\ HasThen(chunk)
             THEN Outcome("await", rr.r, stk, cs2, rr.res, chunk)
             ELSE Outcome("return", rr.r, stk, cs2, readerReturn(chunk, FALSE), Undefined)

evalTransformRead(rd, stk, cs) ==
    IF Len(stk) > 0
    THEN LET rr == ReaderRead(stk[1])
         IN  IF rr.res.done
             THEN Outcome("read", rd, <<>>, cs, rr.res, Undefined)
             ELSE Outcome("return", rd, <<rr.r>>, cs, rr.res, Undefined)
    ELSE LET rr    == ReaderRead(rd)
             isFn  == ~rr.res.done /\ IsFunction(rr.res.value)
             chunk == IF isFn THEN CallChunk(rr.res.value) ELSE rr.res.value
             cs2   == IF isFn THEN CallLog(cs, rr.res.value) ELSE cs
         IN  IF rr.res.done THEN Outcome("return", rr.r, stk, cs, rr.res, Undefined)
             ELSE IF Truthy(chunk) /\ IsReadableStream(chunk)
             THEN Outcome("read", rr.r, <<GetReader(chunk)>>, cs2, rr.res, Undefined)
             ELSE IF Truthy(chunk) /\ HasThen(chunk)
             THEN Outcome("await", rr.r, stk, cs2, rr.res, chunk)
             ELSE Outcome("return", rr.r, stk, cs2, readerReturn(chunk, FALSE), Undefined)

\* chunk.then(val => readReturn(val, false))
evalTransformThen(rd, stk, cs, r, p) ==
    IF p.id = "reject"
    THEN Outcome("return", rd, stk, cs, Rejected(p.sub[1]), Undefined)
    ELSE Outcome("return", rd, stk, cs, readerReturn(p.sub[1], FALSE), Undefined)

\* cancel(reason): activeStreamReader.cancel() and reader.cancel(), both
\* without the reason.
NoReason == "undefined"

\* reader.cancel && reader.cancel(): a Reader without a cancel method is left
\* alone and undefined is the value.
CancelIfAny(r) ==
    IF r.cm = "none" THEN [r |-> r, threw |-> FALSE, value |-> Undefined]
    ELSE ReaderCancel(r, NoReason)

\* Mutant: the active sub-stream Reader is not cancelled.
evalTransformCancel_InputOnly(rd, stk, reason) ==
    LET b == CancelIfAny(rd)
    IN  [reader |-> b.r, stack |-> stk, threw |-> b.threw, value |-> b.value]

evalTransformCancel(rd, stk, reason) ==
    LET a == IF Len(stk) > 0 THEN ReaderCancel(stk[1], NoReason)
             ELSE [r |-> rd, threw |-> FALSE, value |-> Undefined]
        b == CancelIfAny(rd)
    IN  IF a.threw
        THEN [reader |-> rd, stack |-> <<a.r>>, threw |-> TRUE, value |-> Err("cancel")]
        ELSE [reader |-> b.r, stack |-> IF Len(stk) > 0 THEN <<a.r>> ELSE stk,
              threw |-> b.threw, value |-> b.value]

(***************************************************************************)
(* Bounds                                                                  *)
(***************************************************************************)
MaxCancels == 1

Reasons == {"r1"}

(***************************************************************************)
(* Actions                                                                 *)
(***************************************************************************)
\* readToArray: pump() calls reader.read().
Pump ==
    /\ pumpState = "pumping"
    /\ pc = "idle"
    /\ pc' = "read"
    /\ nreads' = nreads + 1
    /\ UNCHANGED <<variant, top, input, reader, ctx, subStreamReaderStack, cur, res, accum,
                   pumpState, pumpErr, calls, exhausted, rejErr, ncancel, cancelRet, mt,
                   consumer, decoder, controller, pipe, mo>>

\* The pending low-level read resolves and the callback of read() runs.
ReadStep ==
    /\ pc = "read"
    /\ Apply(IF top = "flat" /\ variant = "lib"
             THEN LibFlatRead(reader, subStreamReaderStack, calls)
             ELSE IF top = "flat" THEN FlatRead(reader, subStreamReaderStack, calls)
             ELSE IF top = "eval" THEN evalTransformRead(reader, subStreamReaderStack, calls)
             ELSE PlainRead(reader, subStreamReaderStack, calls))
    /\ UNCHANGED <<variant, top, input, ctx, accum, pumpState, pumpErr, nreads, rejErr,
                   ncancel, cancelRet, mt,
                   consumer, decoder, controller, pipe, mo>>

\* The awaited promise settles.
PromiseSettle ==
    /\ pc = "await"
    /\ Apply(IF top = "eval"
             THEN evalTransformThen(reader, subStreamReaderStack, calls, res, cur)
             ELSE IF variant = "lib"
             THEN LibThenOutcome(reader, subStreamReaderStack, calls, res, cur)
             ELSE ThenOutcome(reader, subStreamReaderStack, calls, res, cur))
    /\ rejErr' = IF cur.id = "reject" THEN Append(rejErr, cur.sub[1]) ELSE rejErr
    /\ UNCHANGED <<variant, top, input, ctx, accum, pumpState, pumpErr, nreads,
                   ncancel, cancelRet, mt,
                   consumer, decoder, controller, pipe, mo>>

\* decoder.decode(bytes, { stream: true }) of a UTF-8 TextDecoder that holds
\* back pending: the text decoded and the bytes held back afterwards. "61" is
\* the letter a, "C3" "A9" the two bytes of the letter e-acute; a byte that
\* cannot be decoded gives the replacement character "?".
RECURSIVE Decode(_, _, _)
Decode(pending, bs, text) ==
    IF bs = <<>> THEN [text |-> text, pending |-> pending]
    ELSE IF pending = <<>>
    THEN (IF Head(bs) = "61" THEN Decode(<<>>, Tail(bs), Append(text, "a"))
          ELSE IF Head(bs) = "C3" THEN Decode(<<"C3">>, Tail(bs), text)
          ELSE Decode(<<>>, Tail(bs), Append(text, "?")))
    ELSE (IF Head(bs) = "A9" THEN Decode(<<>>, Tail(bs), Append(text, "e-acute"))
          ELSE Decode(<<>>, bs, Append(text, "?")))

\* decode() of a value that is no byte buffer throws.
DecodeTypeError == Err("TypeError")

PumpResult(state, acc, dec, err) == [state |-> state, accum |-> acc, decoder |-> dec, err |-> err]

\* Mutant: a failed read ends the accumulation as if the Reader were done.
PumpCallback_ResolvesPartial(c, acc, dec, err, r) ==
    IF r.fail \/ r.done THEN PumpResult("resolved", acc, dec, err)
    ELSE IF c = "readToString"
    THEN (IF r.value.k # "bytes" THEN PumpResult("rejected", acc, dec, <<DecodeTypeError>>)
          ELSE LET d == Decode(dec, r.value.sub, <<>>)
               IN  PumpResult("pumping", acc \o d.text, d.pending, err))
    ELSE PumpResult("pumping", Append(acc, r.value), dec, err)

\* The callback of pump() in readToArray and in readToString, given the
\* result r of the read.
PumpCallback(c, acc, dec, err, r) ==
    IF r.fail THEN PumpResult("rejected", acc, dec, <<r.value>>)
    ELSE IF r.done THEN PumpResult("resolved", acc, dec, err)
    ELSE IF c = "readToString"
    THEN (IF r.value.k # "bytes" THEN PumpResult("rejected", acc, dec, <<DecodeTypeError>>)
          ELSE LET d == Decode(dec, r.value.sub, <<>>)
               IN  PumpResult("pumping", acc \o d.text, d.pending, err))
    ELSE PumpResult("pumping", Append(acc, r.value), dec, err)

\* readToArray, readToString: the callback of pump().
PumpThen ==
    LET o == PumpCallback(consumer, accum, decoder, pumpErr, res)
    IN  /\ pumpState = "pumping"
        /\ pc = "settled"
        /\ pc' = "idle"
        /\ pumpState' = o.state
        /\ pumpErr' = o.err
        /\ accum' = o.accum
        /\ decoder' = o.decoder
        /\ UNCHANGED <<variant, top, input, reader, ctx, subStreamReaderStack, cur, res,
                       nreads, calls, exhausted, rejErr, ncancel, cancelRet, mt,
                       consumer, controller, pipe, mo>>

\* The caller reads on after readToArray has resolved.
LaterRead ==
    /\ pumpState = "resolved"
    /\ pc = "idle"
    /\ pc' = "read"
    /\ UNCHANGED <<variant, top, input, reader, ctx, subStreamReaderStack, cur, res, accum,
                   pumpState, pumpErr, nreads, calls, exhausted, rejErr, ncancel, cancelRet, mt,
                   consumer, decoder, controller, pipe, mo>>

LaterThen ==
    /\ pumpState = "resolved"
    /\ pc = "settled"
    /\ pc' = "idle"
    /\ UNCHANGED <<variant, top, input, reader, ctx, subStreamReaderStack, cur, res, accum,
                   pumpState, pumpErr, nreads, calls, exhausted, rejErr, ncancel, cancelRet, mt,
                   consumer, decoder, controller, pipe, mo>>

\* The caller cancels the Reader between two reads.
CancelWith(reason) ==
    LET c == IF top = "flat" /\ variant = "lib"
             THEN LibFlatCancel(reader, subStreamReaderStack, reason)
             ELSE IF top = "flat" THEN FlatCancel(reader, subStreamReaderStack, reason)
             ELSE IF top = "eval" THEN evalTransformCancel(reader, subStreamReaderStack, reason)
             ELSE PlainCancel(reader, subStreamReaderStack, reason)
    IN  /\ pc = "idle"
        /\ ncancel < MaxCancels
        /\ ncancel' = ncancel + 1
        /\ reader' = c.reader
        /\ subStreamReaderStack' = c.stack
        /\ cancelRet' = [threw |-> c.threw, value |-> c.value, reason |-> reason]
        /\ UNCHANGED <<variant, top, input, ctx, pc, cur, res, accum, pumpState, pumpErr,
                       nreads, calls, exhausted, rejErr, mt,
                       consumer, decoder, controller, pipe, mo>>

Cancel == \E reason \in Reasons : CancelWith(reason)

Next == Pump \/ ReadStep \/ PromiseSettle \/ PumpThen \/ LaterRead \/ LaterThen \/ Cancel

(***************************************************************************)
(* Inputs. A family of inputs is given by its leaves, its one-child        *)
(* wrappers (functions, promises) and its containers (arrays, Readers,     *)
(* streams); Universe(fam, n).trees[j] are its values of exactly j nodes,  *)
(* Universe(fam, n).forests[j + 1] its sequences of values of j nodes in   *)
(* all, for j up to n.                                                     *)
(***************************************************************************)
\* The sequences <<x>> \o q of n nodes whose first value x has at most j.
RECURSIVE Joined(_, _, _, _)
Joined(ts, fs, n, j) ==
    IF j = 0 THEN {}
    ELSE {<<x>> \o q : x \in ts[j], q \in fs[n - j + 1]} \cup Joined(ts, fs, n, j - 1)

RECURSIVE Universe(_, _)
Universe(fam, n) ==
    IF n = 0 THEN [trees |-> <<>>, forests |-> <<{<<>>}>>]
    ELSE LET p  == Universe(fam, n - 1)
             tn == (IF n = 1 THEN fam.leaves ELSE {})
                   \cup {[u EXCEPT !.sub = <<x>>] :
                            u \in fam.unary, x \in (IF n = 1 THEN {} ELSE p.trees[n - 1])}
                   \cup {[c EXCEPT !.sub = q] : c \in fam.nary, q \in p.forests[n]}
             ts == Append(p.trees, tn)
         IN  [trees |-> ts, forests |-> Append(p.forests, Joined(ts, p.forests, n, n))]

RECURSIVE UpTo(_, _)
UpTo(sets, j) == IF j = 0 THEN {} ELSE sets[j] \cup UpTo(sets, j - 1)

ForestsUpTo(fam, n) == UpTo(Universe(fam, n).forests, n + 1)

MaxNodesFlat == 5
MaxNodesEval == 4
MaxNodesCancel == 3
MaxLen == 3
MaxItems == 2

NoUnary == {}

FlatFam == [leaves |-> {Str("a"), Str("b")}, unary |-> NoUnary, nary |-> {Arr(<<>>)}]

EvalFam ==
    [leaves |-> {Str("a"), Str("b"), Null, Rejecting("e1")},
     unary |-> {Fn(Null), Resolving(Null)},
     nary |-> {Arr(<<>>)}]

CancelFam ==
    [leaves |-> {Str("a")},
     unary |-> NoUnary,
     nary |-> {Arr(<<>>), ReaderObj("ok", <<>>), ReaderObj("throws", <<>>),
               ReaderObj("rejects", <<>>), StreamObj(<<>>)}]

FlatInputs == {Arr(f) : f \in ForestsUpTo(FlatFam, MaxNodesFlat)}

EvalInputs == {Arr(f) : f \in ForestsUpTo(EvalFam, MaxNodesEval)}

CancelInputs ==
    {[c EXCEPT !.sub = f] : c \in {Arr(<<>>), ReaderObj("ok", <<>>), StreamObj(<<>>)},
                            f \in ForestsUpTo(CancelFam, MaxNodesCancel)}

\* Arrays of arbitrary elements, read as they are.
Elements == {Str("a"), Str("b"), Str(""), Null, Undefined, Arr(<<>>), Fn(Str("a"))}

RECURSIVE SeqsUpTo(_, _)
SeqsUpTo(S, n) ==
    IF n = 0 THEN {<<>>}
    ELSE LET shorter == SeqsUpTo(S, n - 1)
         IN  shorter \cup {Append(q, x) : q \in {z \in shorter : Len(z) = n - 1}, x \in S}

PlainInputs == {Arr(q) : q \in SeqsUpTo(Elements, MaxLen)}

Contexts == {[k |-> "other", id |-> "ctx", sub |-> <<>>]}

MtIdle == [on |-> FALSE]

CtlIdle == [on |-> FALSE, queue |-> <<>>, state |-> "none", pulls |-> 0, err |-> <<>>]

PipeIdle == [on |-> FALSE]

MoIdle == [on |-> FALSE]

InitConsumer(v, t, inputs, c) ==
    /\ variant = v
    /\ top = t
    /\ input \in inputs
    /\ reader = toReader(input)
    /\ ctx \in Contexts
    /\ subStreamReaderStack = <<>>
    /\ pc = "idle"
    /\ cur = Undefined
    /\ res = readerReturn(Undefined, FALSE)
    /\ accum = <<>>
    /\ pumpState = "pumping"
    /\ pumpErr = <<>>
    /\ nreads = 0
    /\ calls = <<>>
    /\ exhausted = FALSE
    /\ rejErr = <<>>
    /\ ncancel = 0
    /\ cancelRet = [threw |-> FALSE, value |-> Undefined, reason |-> ""]
    /\ mt = MtIdle
    /\ consumer = c
    /\ decoder = <<>>
    /\ controller = CtlIdle
    /\ pipe = PipeIdle
    /\ mo = MoIdle

InitWith(v, t, inputs) == InitConsumer(v, t, inputs, "readToArray")

\* new FlatStreamReader(input, ctx) over nested arrays of strings.
InitFlat == InitWith("stack", "flat", FlatInputs)
\* ... over functions, promises and arrays.
InitEval == InitWith("stack", "flat", EvalInputs)
\* ... over arrays, Readers and streams.
InitCancel == InitWith("stack", "flat", CancelInputs)
\* toReader(seq) of part_000 and of src/lib/index.js.
InitPlain == InitWith("stack", "plain", PlainInputs)
InitLib == InitWith("lib", "plain", PlainInputs)

\* toReader(s) of part_000 over values of every kind.
ToReaderItems == SeqsUpTo({Str("a"), Null}, MaxItems)

ToReaderInputs ==
    {[c EXCEPT !.sub = q] :
        c \in {Arr(<<>>), ReaderObj("ok", <<>>), StreamObj(<<>>), Hybrid("read+getReader", <<>>),
               Hybrid("array+read", <<>>), Hybrid("array+getReader", <<>>)},
        q \in ToReaderItems}
    \cup {Null, Undefined, Zero, False, Str(""), Str("a"), Obj, Fn(Str("a")),
          Resolving(Str("a"))}

InitToReader == InitWith("stack", "plain", ToReaderInputs)

\* new FlatStreamReader(input, ctx) over strings only: an array, a Reader or
\* a stream of strings, or one string.
StringChunks == SeqsUpTo({Str("a"), Str("b"), Str("")}, MaxLen)

TextInputs ==
    {[c EXCEPT !.sub = q] : c \in {Arr(<<>>), ReaderObj("ok", <<>>), StreamObj(<<>>)},
                            q \in StringChunks}
    \cup {Str("a"), Str("")}

InitText == InitWith("stack", "flat", TextInputs)

\* ... over strings and nested arrays, Readers and streams, empty ones among
\* them.
MaxNodesNested == 3

NestedFam ==
    [leaves |-> {Str("a"), Str("b")},
     unary |-> NoUnary,
     nary |-> {Arr(<<>>), ReaderObj("ok", <<>>), StreamObj(<<>>)}]

NestedInputs == {Arr(f) : f \in ForestsUpTo(NestedFam, MaxNodesNested)}

InitNested == InitWith("stack", "flat", NestedInputs)

\* readToString(new FlatStreamReader(input, ctx)) over byte buffers, a string
\* and a promise that rejects.
StringElements ==
    {Bytes(<<"61">>), Bytes(<<"C3">>), Bytes(<<"A9">>), Bytes(<<"C3", "A9", "61">>),
     Str("a"), Rejecting("e1")}

StringInputs == {Arr(q) : q \in SeqsUpTo(StringElements, MaxLen)}

InitString == InitConsumer("stack", "flat", StringInputs, "readToString")

NextSync == Pump \/ ReadStep \/ PumpThen \/ LaterRead \/ LaterThen \/ Cancel

SpecFlat == InitFlat /\ [][NextSync]_vars
SpecEval == InitEval /\ [][Next]_vars
SpecCancel == InitCancel /\ [][NextSync]_vars
SpecPlain == InitPlain /\ [][NextSync]_vars
SpecLib == InitLib /\ [][NextSync]_vars
SpecToReader == InitToReader /\ [][NextSync]_vars
SpecText == InitText /\ [][NextSync]_vars
SpecNested == InitNested /\ [][NextSync]_vars
\* new FlatStreamReader(input, ctx) of src/lib/index.js over a stream of
\* strings and nested streams.
LibStreamFam == [leaves |-> {Str("a"), Str("b")}, unary |-> NoUnary, nary |-> {StreamObj(<<>>)}]

LibStreamInputs == {StreamObj(f) : f \in ForestsUpTo(LibStreamFam, MaxNodesNested)}

InitLibFlat == InitWith("lib", "flat", LibStreamInputs)

SpecLibFlat == InitLibFlat /\ [][NextSync]_vars
\* evalTransform(ctx)(reader) of src/index.js, reader the Reader of a stream
\* of strings, null, functions, promises that resolve, and streams of these.
MaxNodesTransform == 3

TransformFam ==
    [leaves |-> {Str("a"), Null},
     unary |-> {Fn(Null), Resolving(Null)},
     nary |-> {StreamObj(<<>>)}]

TransformInputs == {StreamObj(f) : f \in ForestsUpTo(TransformFam, MaxNodesTransform)}

InitTransform == InitWith("stack", "eval", TransformInputs)

SpecTransform == InitTransform /\ [][Next]_vars

\* new FlatStreamReader(input, ctx) over chunks of every class, objects with
\* several capabilities and functions that return them among the chunks.
ClassifyElements ==
    LET one == <<Str("a")>>
    IN  {Str("a"), Str(""), Null, Obj, Arr(one), Resolving(Str("a")), ReaderObj("ok", one),
         StreamObj(one), Hybrid("then+read", one), Hybrid("then+getReader", one),
         Hybrid("array+then", one), Hybrid("array+read", one), Hybrid("read+getReader", one),
         Fn(Str("a")), Fn(Null), Fn(Arr(one)), Fn(Hybrid("then+read", one)),
         Fn(Hybrid("array+then", one)), Fn(Hybrid("read+getReader", one))}

ClassifyInputs == {Arr(q) : q \in SeqsUpTo(ClassifyElements, MaxItems)}

InitClassify == InitWith("stack", "flat", ClassifyInputs)

SpecClassify == InitClassify /\ [][Next]_vars

\* new FlatStreamReader(input, ctx) over falsy chunks, functions and promises
\* that give falsy values, and an array that holds one.
FalsyElements ==
    {Null, Undefined, Zero, False, Str(""), Str("a"), Fn(Zero), Fn(Str("")), Resolving(Null),
     Resolving(False), Arr(<<Null>>)}

FalsyInputs == {Arr(q) : q \in SeqsUpTo(FalsyElements, MaxLen)}

InitFalsy == InitWith("stack", "flat", FalsyInputs)

SpecFalsy == InitFalsy /\ [][Next]_vars

\* readToArray(new FlatStreamReader(input, ctx)) over finite inputs whose
\* functions return, whose promises resolve and whose nested sources end. The
\* consumer keeps reading, every low-level read() resolves and every promise
\* callback is run: a step that can be taken is taken.
MaxNodesLive == 3

LiveFam ==
    [leaves |-> {Str("a"), Null},
     unary |-> {Fn(Null), Resolving(Null)},
     nary |-> {Arr(<<>>), ReaderObj("ok", <<>>), StreamObj(<<>>)}]

LiveInputs == {Arr(f) : f \in ForestsUpTo(LiveFam, MaxNodesLive)}

InitLive == InitWith("stack", "flat", LiveInputs)

NextLive == Pump \/ ReadStep \/ PromiseSettle \/ PumpThen

SpecLive == InitLive /\ [][NextLive]_vars /\ WF_vars(NextLive)

SpecStack == (InitEval \/ InitNested) /\ [][Next]_vars

SpecDrain == (InitEval \/ InitString) /\ [][Next]_vars

(***************************************************************************)
(* matchTransform, the remainder-based variant (src/index.js, 299-335).    *)
(* A string is the sequence of its characters. The values the matcher      *)
(* hands out are pieces of text and match objects. mt is the pipeline:     *)
(* chunks and i are the array the input Reader reads and its cursor,       *)
(* curMatch the transform's state, out what the consumer has collected,    *)
(* args the arguments the matcher has been called with.                    *)
(***************************************************************************)
Text(s) == [t |-> "text", s |-> s]
MatchOf(s) == [t |-> "match", s |-> s]

\* The matcher handed to matchTransform: it finds the occurrences of Pattern,
\* hands out the text between them, and keeps as remainder a trailing piece
\* that may be the beginning of an occurrence.
Pattern == <<"a", "b", "c">>

Alphabet == {"a", "b", "c"}

IsProperPrefix(p, q) == Len(p) < Len(q) /\ p = SubSeq(q, 1, Len(p))

AddText(ms, s) == IF s = <<>> THEN ms ELSE Append(ms, Text(s))

RECURSIVE Scan(_, _, _, _)
Scan(s, i, lit, ms) ==
    IF i > Len(s) THEN [matches |-> AddText(ms, lit), remainder |-> <<>>]
    ELSE IF i + Len(Pattern) - 1 <= Len(s) /\ SubSeq(s, i, i + Len(Pattern) - 1) = Pattern
    THEN Scan(s, i + Len(Pattern), <<>>, Append(AddText(ms, lit), MatchOf(Pattern)))
    ELSE IF IsProperPrefix(SubSeq(s, i, Len(s)), Pattern)
    THEN [matches |-> AddText(ms, lit), remainder |-> SubSeq(s, i, Len(s))]
    ELSE Scan(s, i + 1, Append(lit, s[i]), ms)

matchFn(s) == Scan(s, 1, <<>>, <<>>)

mtReturn(value, done) == [value |-> value, done |-> done]

\* read() of the Reader makeReader returns: a pending match is handed out at
\* once, otherwise the input Reader is read.
MtRead(m) ==
    IF Len(m.curMatch.matches) > 0
    THEN [m EXCEPT !.pc = "settled",
                   !.res = mtReturn(Head(m.curMatch.matches), FALSE),
                   !.curMatch.matches = Tail(@)]
    ELSE [m EXCEPT !.pc = "read"]

\* Mutant: the matcher is given the new chunk alone.
MtOnChunk_DropsRemainder(m, chunk) ==
    MtRead([m EXCEPT !.curMatch = matchFn(chunk), !.args = Append(@, chunk)])

\* curMatch = matchFn(curMatch.remainder + res.value); return read();
MtOnChunk(m, chunk) ==
    MtRead([m EXCEPT !.curMatch = matchFn(m.curMatch.remainder \o chunk),
                     !.args = Append(@, m.curMatch.remainder \o chunk)])

\* Mutant: the remainder is dropped at the end of the input.
MtOnDone_NoFlush(m) == [m EXCEPT !.pc = "settled", !.res = mtReturn(Text(<<>>), TRUE)]

\* The input Reader has signalled done.
MtOnDone(m) ==
    IF m.curMatch.remainder # <<>>
    THEN MtRead([m EXCEPT !.curMatch.matches = Append(@, Text(m.curMatch.remainder)),
                          !.curMatch.remainder = <<>>])
    ELSE [m EXCEPT !.pc = "settled", !.res = mtReturn(Text(<<>>), TRUE)]

\* The callback of reader.read().
MtCallback(m) ==
    IF m.i < Len(m.chunks)
    THEN MtOnChunk([m EXCEPT !.i = @ + 1], m.chunks[m.i + 1])
    ELSE MtOnDone(m)

MaxText == 5

\* The ways of cutting the strings of n characters into chunks.
RECURSIVE Cuts(_)
Cuts(n) ==
    IF n = 0 THEN {<<>>}
    ELSE LET shorter == Cuts(n - 1)
         IN  {<<<<x>>>> \o q : x \in Alphabet, q \in shorter}
             \cup {<<<<x>> \o Head(q)>> \o Tail(q) : x \in Alphabet, q \in shorter \ {<<>>}}

RECURSIVE CutsUpTo(_)
CutsUpTo(n) == IF n = 0 THEN Cuts(0) ELSE Cuts(n) \cup CutsUpTo(n - 1)

MtInputs == CutsUpTo(MaxText)

MtStart(chunks) ==
    [on |-> TRUE, chunks |-> chunks, i |-> 0,
     curMatch |-> [matches |-> <<>>, remainder |-> <<>>],
     pc |-> "idle", res |-> mtReturn(Text(<<>>), FALSE), out |-> <<>>,
     state |-> "pumping", args |-> <<>>]

InitMatch ==
    /\ variant = "stack"
    /\ top = "plain"
    /\ input = Arr(<<>>)
    /\ reader = toReader(input)
    /\ ctx \in Contexts
    /\ subStreamReaderStack = <<>>
    /\ pc = "idle"
    /\ cur = Undefined
    /\ res = readerReturn(Undefined, FALSE)
    /\ accum = <<>>
    /\ pumpState = "resolved"
    /\ pumpErr = <<>>
    /\ nreads = 0
    /\ calls = <<>>
    /\ exhausted = FALSE
    /\ rejErr = <<>>
    /\ ncancel = 0
    /\ cancelRet = [threw |-> FALSE, value |-> Undefined, reason |-> ""]
    /\ mt \in {MtStart(c) : c \in MtInputs}
    /\ consumer = "readToArray"
    /\ decoder = <<>>
    /\ controller = CtlIdle
    /\ pipe = PipeIdle
    /\ mo = MoIdle

\* The consumer calls read().
MtPump ==
    /\ mt.on
    /\ mt.state = "pumping"
    /\ mt.pc = "idle"
    /\ mt' = MtRead(mt)
    /\ UNCHANGED <<flatVars, controller, pipe, mo>>

\* The read of the input Reader resolves.
MtReadStep ==
    /\ mt.on
    /\ mt.pc = "read"
    /\ mt' = MtCallback(mt)
    /\ UNCHANGED <<flatVars, controller, pipe, mo>>

\* The consumer takes the result of its read().
MtThen ==
    /\ mt.on
    /\ mt.pc = "settled"
    /\ mt' = IF mt.res.done THEN [mt EXCEPT !.pc = "idle", !.state = "resolved"]
             ELSE [mt EXCEPT !.pc = "idle", !.out = Append(@, mt.res.value)]
    /\ UNCHANGED <<flatVars, controller, pipe, mo>>

NextMatch == MtPump \/ MtReadStep \/ MtThen

SpecMatch == InitMatch /\ [][NextMatch]_vars

(***************************************************************************)
(* matchTransform, the matcher-object variant (src/index.js, 105-146).     *)
(* The matcher keeps an incomplete match to itself: match(chunk) returns   *)
(* the values it has completed and done, which tells whether it is between *)
(* matches. mo is the pipeline: chunks and i are the array the input       *)
(* Reader reads and its cursor, curMatch the transform's state, matcher    *)
(* the matcher object, reads and lowReads the read() calls made on the     *)
(* transform's Reader and on the input Reader, input the input Reader as   *)
(* an object (its id tells what its cancel does), cancels the arguments    *)
(* its cancel() was called with, ncancel and cancelRet the cancel() calls  *)
(* made on the transform's Reader and what the last one returned.          *)
(***************************************************************************)
NoFullMatch == Err("MatchTransform: No full match, but input stream terminated!")

NoValue == [t |-> "undefined", s |-> <<>>]

moReturn(value, done) == [value |-> value, done |-> done, fail |-> FALSE]

MoFailed(e) == [value |-> e, done |-> FALSE, fail |-> TRUE]

\* The matcher object: it finds the occurrences of Pattern, hands out every
\* other character as a string of its own, and holds back in buf a trailing
\* piece that may be the beginning of an occurrence.
RECURSIVE MoScan(_, _, _)
MoScan(s, i, vs) ==
    IF i > Len(s) THEN [values |-> vs, buf |-> <<>>]
    ELSE IF i + Len(Pattern) - 1 <= Len(s) /\ SubSeq(s, i, i + Len(Pattern) - 1) = Pattern
    THEN MoScan(s, i + Len(Pattern), Append(vs, MatchOf(Pattern)))
    ELSE IF IsProperPrefix(SubSeq(s, i, Len(s)), Pattern)
    THEN [values |-> vs, buf |-> SubSeq(s, i, Len(s))]
    ELSE MoScan(s, i + 1, Append(vs, Text(<<s[i]>>)))

\* matcher.match(chunk): the matcher afterwards and the match result.
MoMatch(mx, chunk) ==
    LET r == MoScan(mx.buf \o chunk, 1, <<>>)
    IN  [matcher |-> [mx EXCEPT !.buf = r.buf, !.args = Append(@, chunk)],
         result |-> [values |-> r.values, done |-> (r.buf = <<>>)]]

\* matcher.reset()
MoReset(mx) == [mx EXCEPT !.buf = <<>>, !.resets = @ + 1]

\* Mutant: the first pending value is returned alone, strings are not joined.
TakeStrings_One(chunk, values) == [chunk |-> chunk, values |-> values]

\* while (curMatch.values.length && typeof curMatch.values[0] === 'string')
\*     chunk += curMatch.values.shift();
RECURSIVE TakeStrings(_, _)
TakeStrings(chunk, values) ==
    IF Len(values) > 0 /\ values[1].t = "text"
    THEN TakeStrings(Text(chunk.s \o values[1].s), Tail(values))
    ELSE [chunk |-> chunk, values |-> values]

\* read() of the Reader makeReader returns.
MoRead(m) ==
    IF Len(m.curMatch.values) > 0
    THEN LET c == Head(m.curMatch.values)
             t == IF c.t = "text" THEN TakeStrings(c, Tail(m.curMatch.values))
                  ELSE [chunk |-> c, values |-> Tail(m.curMatch.values)]
         IN  [m EXCEPT !.pc = "settled", !.res = moReturn(t.chunk, FALSE),
                       !.curMatch.values = t.values]
    ELSE [m EXCEPT !.pc = "read", !.lowReads = @ + 1]

\* Mutant: an incomplete match at the end of the input is passed over.
MoOnDone_ReturnsDone(m) ==
    [m EXCEPT !.curMatch.done = TRUE, !.pc = "settled", !.res = moReturn(NoValue, TRUE)]

\* The input Reader has signalled done.
MoOnDone(m) ==
    IF ~m.curMatch.done
    THEN [m EXCEPT !.matcher = IF m.matcher.hasReset THEN MoReset(@) ELSE @,
                   !.pc = "settled", !.res = MoFailed(NoFullMatch)]
    ELSE [m EXCEPT !.curMatch.done = TRUE, !.pc = "settled", !.res = moReturn(NoValue, TRUE)]

\* curMatch = matcher.match(res.value); return read();
MoOnChunk(m, chunk) ==
    LET r == MoMatch(m.matcher, chunk)
    IN  MoRead([m EXCEPT !.matcher = r.matcher, !.curMatch = r.result])

\* The callback of reader.read().
MoCallback(m) ==
    IF m.i < Len(m.chunks)
    THEN MoOnChunk([m EXCEPT !.i = @ + 1], m.chunks[m.i + 1])
    ELSE MoOnDone(m)

\* cancel(reason) of the Reader makeReader returns:
\* return reader.cancel && reader.cancel();
MoCancel(m, reason) ==
    IF m.input.id = "none"
    THEN [m EXCEPT !.ncancel = @ + 1, !.cancelRet = Undefined]
    ELSE [m EXCEPT !.ncancel = @ + 1, !.cancels = Append(@, NoReason),
                   !.cancelRet = CancelToken]

MaxTextObj == 4
MaxExtraReads == 1

MoInputs == CutsUpTo(MaxTextObj)

\* makeReader(reader) of matchTransform(matcher).
MoStart(chunks, hasReset) ==
    [on |-> TRUE, chunks |-> chunks, i |-> 0,
     curMatch |-> [values |-> <<>>, done |-> FALSE],
     matcher |-> [buf |-> <<>>, hasReset |-> hasReset, resets |-> 0, args |-> <<>>],
     pc |-> "idle", res |-> moReturn(NoValue, FALSE), out |-> <<>>,
     state |-> "pumping", err |-> <<>>, reads |-> 0, lowReads |-> 0, extra |-> 0,
     input |-> ReaderObj("ok", <<>>), cancels |-> <<>>, ncancel |-> 0,
     cancelRet |-> Undefined]

InitMatchObj ==
    /\ variant = "stack"
    /\ top = "plain"
    /\ input = Arr(<<>>)
    /\ reader = toReader(input)
    /\ ctx \in Contexts
    /\ subStreamReaderStack = <<>>
    /\ pc = "idle"
    /\ cur = Undefined
    /\ res = readerReturn(Undefined, FALSE)
    /\ accum = <<>>
    /\ pumpState = "resolved"
    /\ pumpErr = <<>>
    /\ nreads = 0
    /\ calls = <<>>
    /\ exhausted = FALSE
    /\ rejErr = <<>>
    /\ ncancel = 0
    /\ cancelRet = [threw |-> FALSE, value |-> Undefined, reason |-> ""]
    /\ mt = MtIdle
    /\ consumer = "readToArray"
    /\ decoder = <<>>
    /\ controller = CtlIdle
    /\ pipe = PipeIdle
    /\ mo \in {MoStart(c, h) : c \in MoInputs, h \in BOOLEAN}

\* The consumer calls read(): until the Reader has ended or failed, and a few
\* times more after that.
MoPump ==
    /\ mo.on
    /\ mo.pc = "idle"
    /\ mo.state = "pumping" \/ mo.extra < MaxExtraReads
    /\ mo' = MoRead([mo EXCEPT !.reads = @ + 1,
                               !.extra = IF mo.state = "pumping" THEN @ ELSE @ + 1])
    /\ UNCHANGED <<flatVars, controller, mt, pipe>>

\* The read of the input Reader resolves.
MoReadStep ==
    /\ mo.on
    /\ mo.pc = "read"
    /\ mo' = MoCallback(mo)
    /\ UNCHANGED <<flatVars, controller, mt, pipe>>

\* The consumer takes the result of its read().
MoThen ==
    /\ mo.on
    /\ mo.pc = "settled"
    /\ mo' = IF mo.state # "pumping" THEN [mo EXCEPT !.pc = "idle"]
             ELSE IF mo.res.fail
             THEN [mo EXCEPT !.pc = "idle", !.state = "rejected", !.err = <<mo.res.value>>]
             ELSE IF mo.res.done THEN [mo EXCEPT !.pc = "idle", !.state = "resolved"]
             ELSE [mo EXCEPT !.pc = "idle", !.out = Append(@, mo.res.value)]
    /\ UNCHANGED <<flatVars, controller, mt, pipe>>

NextMatchObj == MoPump \/ MoReadStep \/ MoThen

SpecMatchObj == InitMatchObj /\ [][NextMatchObj]_vars

(***************************************************************************)
(* transformStream and readerToUnderlyingSource (src/index.js, 72-94 and   *)
(* 216-230). pipe is one call of transformStream(input, transforms):       *)
(* locked counts the getReader() calls made on the input stream, made is   *)
(* the log of the makeReader calls (the transform and the Reader it was    *)
(* given), final the Reader handed to readerToUnderlyingSource, i the      *)
(* cursor of the input's Reader, reads the log of the read() calls (on     *)
(* which Reader, by whom). A Reader is named by a number: 0 is the Reader  *)
(* of the input, n the Reader the n-th makeReader call returned.           *)
(* controller is the controller of the ReadableStream the call returns.    *)
(***************************************************************************)
TransformsExpected == Err("Transforms array expected.")

\* A transform: a function from Reader to Reader. The Reader it makes reads
\* the Reader it was given, once per read(), and hands on what it read
\* wrapped under the transform's name.
Transform(name) == [k |-> "transform", id |-> name, sub |-> <<>>]

WrapBy(t, v) == [k |-> "other", id |-> t.id, sub |-> <<v>>]

\* new ReadableStream(underlyingSource): its controller.
CtlNew == [on |-> TRUE, queue |-> <<>>, state |-> "readable", pulls |-> 0, err |-> <<>>]

\* Mutant: a failed read closes the stream.
PullCallback_ClosesOnFailure(c, r) ==
    IF r.fail \/ r.done THEN [c EXCEPT !.state = "closed"]
    ELSE [c EXCEPT !.queue = Append(@, r.value)]

\* Mutant: a falsy value read by pull is not enqueued.
PullCallback_DropsFalsy(c, r) ==
    IF r.fail THEN [c EXCEPT !.state = "errored", !.err = <<r.value>>]
    ELSE IF r.done THEN [c EXCEPT !.state = "closed"]
    ELSE IF Truthy(r.value) THEN [c EXCEPT !.queue = Append(@, r.value)]
    ELSE c

\* The callback of pull: reader.read().then(res => ...). A read that failed
\* makes the promise pull returned reject, which errors the stream.
PullCallback(c, r) ==
    IF r.fail THEN [c EXCEPT !.state = "errored", !.err = <<r.value>>]
    ELSE IF r.done THEN [c EXCEPT !.state = "closed"]
    ELSE [c EXCEPT !.queue = Append(@, r.value)]

\* Mutant: every transform is given the Reader of the input.
RECURSIVE ApplyTransforms_AllOnInput(_, _, _, _)
ApplyTransforms_AllOnInput(fns, k, rdr, made) ==
    IF k > Len(fns) THEN [reader |-> rdr, made |-> made]
    ELSE ApplyTransforms_AllOnInput(fns, k + 1, Len(made) + 1,
                                    Append(made, [fn |-> fns[k], arg |-> 0]))

\* transforms.forEach(function(makeReader) { reader = makeReader(reader); })
\* from the k-th transform on.
RECURSIVE ApplyTransforms(_, _, _, _)
ApplyTransforms(fns, k, rdr, made) ==
    IF k > Len(fns) THEN [reader |-> rdr, made |-> made]
    ELSE ApplyTransforms(fns, k + 1, Len(made) + 1,
                         Append(made, [fn |-> fns[k], arg |-> rdr]))

\* Mutant: the transforms are not looked at before the stream is returned.
transformStream_DefersCheck(p) ==
    IF ~IsArray(p.transforms)
    THEN [p EXCEPT !.locked = @ + 1, !.phase = "returned"]
    ELSE LET a == ApplyTransforms(p.transforms.sub, 1, 0, <<>>)
         IN  [p EXCEPT !.locked = @ + 1, !.phase = "returned",
                       !.made = a.made, !.final = a.reader]

\* transformStream(input, transforms, options): the whole call.
transformStream(p) ==
    IF ~IsArray(p.transforms)
    THEN [p EXCEPT !.locked = @ + 1, !.phase = "threw", !.err = <<TransformsExpected>>]
    ELSE LET a == ApplyTransforms(p.transforms.sub, 1, 0, <<>>)
         IN  [p EXCEPT !.locked = @ + 1, !.phase = "returned",
                       !.made = a.made, !.final = a.reader]

\* The read() calls that a read() of Reader j makes, when it is called by by:
\* <<>> is the stream, <<n>> the Reader n.
RECURSIVE ChainReads(_, _, _)
ChainReads(made, j, by) ==
    IF j = 0 THEN <<[on |-> 0, by |-> by]>>
    ELSE <<[on |-> j, by |-> by]>> \o ChainReads(made, made[j].arg, <<j>>)

\* What a read() of Reader j returns when the Reader of the input yields v.
RECURSIVE ChainValue(_, _, _)
ChainValue(made, j, v) ==
    IF j = 0 THEN v ELSE WrapBy(made[j].fn, ChainValue(made, made[j].arg, v))

MaxTransforms == 2

PipeItems == SeqsUpTo({Str("a"), Str("b")}, MaxItems)

PipeInputs == {Arr(q) : q \in PipeItems} \cup {StreamObj(q) : q \in PipeItems}

PipeTransforms ==
    {Arr(q) : q \in SeqsUpTo({Transform("F"), Transform("G")}, MaxTransforms)}
    \cup {Null, Undefined, Transform("F"), Str("F")}

PipeStart(in, transforms) ==
    [on |-> TRUE, input |-> in, transforms |-> transforms, phase |-> "start",
     err |-> <<>>, locked |-> 0, made |-> <<>>, final |-> 0, i |-> 0, reads |-> <<>>,
     pc |-> "idle", res |-> readerReturn(Undefined, FALSE)]

InitPipe ==
    /\ variant = "stack"
    /\ top = "plain"
    /\ input = Arr(<<>>)
    /\ reader = toReader(input)
    /\ ctx \in Contexts
    /\ subStreamReaderStack = <<>>
    /\ pc = "idle"
    /\ cur = Undefined
    /\ res = readerReturn(Undefined, FALSE)
    /\ accum = <<>>
    /\ pumpState = "resolved"
    /\ pumpErr = <<>>
    /\ nreads = 0
    /\ calls = <<>>
    /\ exhausted = FALSE
    /\ rejErr = <<>>
    /\ ncancel = 0
    /\ cancelRet = [threw |-> FALSE, value |-> Undefined, reason |-> ""]
    /\ mt = MtIdle
    /\ consumer = "readToArray"
    /\ decoder = <<>>
    /\ controller = CtlIdle
    /\ pipe \in {PipeStart(in, t) : in \in PipeInputs, t \in PipeTransforms}
    /\ mo = MoIdle

\* The caller calls transformStream(input, transforms).
TransformStream ==
    /\ pipe.on
    /\ pipe.phase = "start"
    /\ pipe' = transformStream(pipe)
    /\ controller' = IF pipe'.phase = "returned" THEN CtlNew ELSE controller
    /\ UNCHANGED <<flatVars, mt, mo>>

\* The stream asks for data: pull(controller) calls reader.read().
PipePull ==
    /\ pipe.on
    /\ pipe.phase = "returned"
    /\ controller.state = "readable"
    /\ pipe.pc = "idle"
    /\ pipe' = [pipe EXCEPT !.pc = "read",
                            !.reads = @ \o ChainReads(pipe.made, pipe.final, <<>>)]
    /\ controller' = [controller EXCEPT !.pulls = @ + 1]
    /\ UNCHANGED <<flatVars, mt, mo>>

\* The read of the input's Reader resolves, and with it the read() of every
\* Reader above it.
PipeReadStep ==
    /\ pipe.on
    /\ pipe.pc = "read"
    /\ pipe' = IF pipe.i < Len(pipe.input.sub)
               THEN [pipe EXCEPT !.pc = "settled", !.i = @ + 1,
                        !.res = readerReturn(ChainValue(pipe.made, pipe.final,
                                                        pipe.input.sub[pipe.i + 1]), FALSE)]
               ELSE [pipe EXCEPT !.pc = "settled", !.res = readerReturn(Undefined, TRUE)]
    /\ UNCHANGED <<flatVars, controller, mt, mo>>

\* The callback of pull.
PipePullThen ==
    /\ pipe.on
    /\ pipe.pc = "settled"
    /\ pipe' = [pipe EXCEPT !.pc = "idle"]
    /\ controller' = PullCallback(controller, pipe.res)
    /\ UNCHANGED <<flatVars, mt, mo>>

NextPipe == TransformStream \/ PipePull \/ PipeReadStep \/ PipePullThen

SpecPipe == InitPipe /\ [][NextPipe]_vars

(***************************************************************************)
(* readerToStream (src/unnamed/part_000, 131-145): a ReadableStream whose  *)
(* pull reads the FlatStreamReader.                                        *)
(***************************************************************************)
InitStream ==
    /\ variant = "stack"
    /\ top = "flat"
    /\ input \in EvalInputs
    /\ reader = toReader(input)
    /\ ctx \in Contexts
    /\ subStreamReaderStack = <<>>
    /\ pc = "idle"
    /\ cur = Undefined
    /\ res = readerReturn(Undefined, FALSE)
    /\ accum = <<>>
    /\ pumpState = "unused"
    /\ pumpErr = <<>>
    /\ nreads = 0
    /\ calls = <<>>
    /\ exhausted = FALSE
    /\ rejErr = <<>>
    /\ ncancel = 0
    /\ cancelRet = [threw |-> FALSE, value |-> Undefined, reason |-> ""]
    /\ mt = MtIdle
    /\ consumer = "stream"
    /\ decoder = <<>>
    /\ controller = CtlNew
    /\ pipe = PipeIdle
    /\ mo = MoIdle

\* The stream asks for data: pull(controller) calls reader.read().
Pull ==
    /\ consumer = "stream"
    /\ controller.state = "readable"
    /\ pc = "idle"
    /\ pc' = "read"
    /\ nreads' = nreads + 1
    /\ controller' = [controller EXCEPT !.pulls = @ + 1]
    /\ UNCHANGED <<variant, top, input, reader, ctx, subStreamReaderStack, cur, res, accum,
                   pumpState, pumpErr, calls, exhausted, rejErr, ncancel, cancelRet, mt,
                   consumer, decoder, pipe, mo>>

\* The callback of pull.
PullThen ==
    /\ consumer = "stream"
    /\ pc = "settled"
    /\ pc' = "idle"
    /\ controller' = PullCallback(controller, res)
    /\ UNCHANGED <<variant, top, input, reader, ctx, subStreamReaderStack, cur, res, accum,
                   pumpState, pumpErr, nreads, calls, exhausted, rejErr, ncancel, cancelRet,
                   mt, consumer, decoder, pipe, mo>>

NextStream == Pull \/ ReadStep \/ PromiseSettle \/ PullThen

SpecStream == InitStream /\ [][NextStream]_vars

(***************************************************************************)
(* toStream (src/unnamed/part_000, 164-179) and the drain of               *)
(* toReader(toStream(s)): the Reader of the stream hands out what is in    *)
(* the stream's queue, and done once the stream is closed and the queue    *)
(* empty.                                                                  *)
(***************************************************************************)
\* arrayToStream(arr): start() enqueues every element and closes.
arrayToStream(arr) == [CtlNew EXCEPT !.queue = arr, !.state = "closed"]

\* readerToStream(reader): nothing is read before the first pull.
readerToStream(r) == CtlNew

\* toStream(s): the controller of the stream it returns. A stream handed in
\* is returned as it is; its chunks are waiting in it.
toStream(s) ==
    IF Truthy(s) /\ HasGetReader(s) THEN arrayToStream(s.sub)
    ELSE IF Truthy(s) /\ IsArray(s) THEN arrayToStream(s.sub)
    ELSE IF Truthy(s) /\ HasRead(s) THEN readerToStream(s)
    ELSE arrayToStream(<<s>>)

RoundTripInputs ==
    {[c EXCEPT !.sub = q] : c \in {ReaderObj("ok", <<>>), Arr(<<>>)},
                            q \in SeqsUpTo({Str("a"), Str("b"), Null}, MaxLen)}

\* readToArray(toReader(toStream(s))): the Reader under the stream is the
\* Reader s itself.
InitRoundTrip ==
    /\ variant = "stack"
    /\ top = "plain"
    /\ input \in RoundTripInputs
    /\ reader = toReader(input)
    /\ ctx \in Contexts
    /\ subStreamReaderStack = <<>>
    /\ pc = "idle"
    /\ cur = Undefined
    /\ res = readerReturn(Undefined, FALSE)
    /\ accum = <<>>
    /\ pumpState = "draining"
    /\ pumpErr = <<>>
    /\ nreads = 0
    /\ calls = <<>>
    /\ exhausted = FALSE
    /\ rejErr = <<>>
    /\ ncancel = MaxCancels
    /\ cancelRet = [threw |-> FALSE, value |-> Undefined, reason |-> ""]
    /\ mt = MtIdle
    /\ consumer = "stream"
    /\ decoder = <<>>
    /\ controller = toStream(input)
    /\ pipe = PipeIdle
    /\ mo = MoIdle

\* readToArray(s) itself, for the same inputs.
InitDirect == InitWith("stack", "plain", RoundTripInputs)

\* pump() of readToArray on the Reader of the stream: a read() gives the
\* first chunk of the queue.
StreamTake ==
    /\ consumer = "stream"
    /\ pumpState = "draining"
    /\ controller.queue # <<>>
    /\ accum' = Append(accum, Head(controller.queue))
    /\ controller' = [controller EXCEPT !.queue = Tail(@)]
    /\ UNCHANGED <<variant, top, input, reader, ctx, subStreamReaderStack, pc, cur, res,
                   pumpState, pumpErr, nreads, calls, exhausted, rejErr, ncancel, cancelRet,
                   mt, consumer, decoder, pipe, mo>>

\* ... with the queue empty: done=true from a closed stream, a rejection from
\* an errored one.
StreamEnd ==
    /\ consumer = "stream"
    /\ pumpState = "draining"
    /\ controller.queue = <<>>
    /\ controller.state \in {"closed", "errored"}
    /\ pumpState' = IF controller.state = "closed" THEN "drained" ELSE "rejected"
    /\ pumpErr' = IF controller.state = "closed" THEN pumpErr ELSE controller.err
    /\ UNCHANGED <<variant, top, input, reader, ctx, subStreamReaderStack, pc, cur, res, accum,
                   nreads, calls, exhausted, rejErr, ncancel, cancelRet, mt, consumer, decoder,
                   controller, pipe, mo>>

NextRoundTrip == Pull \/ ReadStep \/ PullThen \/ StreamTake \/ StreamEnd \/ Pump \/ PumpThen

SpecRoundTrip == (InitRoundTrip \/ InitDirect) /\ [][NextRoundTrip]_vars

(***************************************************************************)
(* The wrappers (toReader, FlatStreamReader, the makeReader of             *)
(* evalTransform and of the two matchTransforms) before and after their    *)
(* first read().                                                           *)
(***************************************************************************)
LazyElements == {Str("a"), Fn(Str("a")), Resolving(Str("a")), StreamObj(<<Str("b")>>)}

LazyInputs ==
    {[c EXCEPT !.sub = q] : c \in {Arr(<<>>), ReaderObj("ok", <<>>), StreamObj(<<>>)},
                            q \in SeqsUpTo(LazyElements, MaxItems)}

InitLazyReader == \E t \in {"plain", "flat", "eval"} : InitWith("stack", t, LazyInputs)

\* The variables of the Reader consumers, while none of them is in use.
FlatUnused ==
    /\ variant = "stack"
    /\ top = "plain"
    /\ input = Arr(<<>>)
    /\ reader = toReader(input)
    /\ ctx \in Contexts
    /\ subStreamReaderStack = <<>>
    /\ pc = "idle"
    /\ cur = Undefined
    /\ res = readerReturn(Undefined, FALSE)
    /\ accum = <<>>
    /\ pumpState = "unused"
    /\ pumpErr = <<>>
    /\ nreads = 0
    /\ calls = <<>>
    /\ exhausted = FALSE
    /\ rejErr = <<>>
    /\ ncancel = MaxCancels
    /\ cancelRet = [threw |-> FALSE, value |-> Undefined, reason |-> ""]
    /\ consumer = "readToArray"
    /\ decoder = <<>>
    /\ controller = CtlIdle
    /\ pipe = PipeIdle

InitLazyMatch ==
    /\ FlatUnused
    /\ mt \in {MtStart(c) : c \in CutsUpTo(MaxItems)}
    /\ mo = MoIdle

InitLazyMatchObj ==
    /\ FlatUnused
    /\ mt = MtIdle
    /\ mo \in {MoStart(c, h) : c \in CutsUpTo(MaxItems), h \in BOOLEAN}

NextLazy == Next \/ NextMatch \/ NextMatchObj

SpecLazy == (InitLazyReader \/ InitLazyMatch \/ InitLazyMatchObj) /\ [][NextLazy]_vars

\* One consumer that reads again only after its read has settled: of a
\* FlatStreamReader over nested sources, and of the matcher-object
\* matchTransform.
InitSingleMatchObj ==
    /\ FlatUnused
    /\ mt = MtIdle
    /\ mo \in {MoStart(c, h) : c \in MoInputs, h \in BOOLEAN}

NextSingle == NextSync \/ NextMatchObj

SpecSingle == (InitNested \/ InitSingleMatchObj) /\ [][NextSingle]_vars

\* cancel(reason) on the Reader of evalTransform(ctx)(reader) and of
\* matchTransform(matcher)(reader), between two reads, for an input Reader
\* with and without a cancel method.
TransformCancelInputs ==
    {ReaderObj(cm, q) : cm \in {"ok", "none"},
                        q \in SeqsUpTo({Str("a"), Resolving(Str("a")),
                                         StreamObj(<<Str("a"), Str("b")>>)}, MaxItems)}

InitEvalCancel == InitWith("stack", "eval", TransformCancelInputs)

InitMoCancel ==
    /\ FlatUnused
    /\ mt = MtIdle
    /\ mo \in {[MoStart(c, TRUE) EXCEPT !.input = ReaderObj(cm, <<>>)] :
                    c \in CutsUpTo(MaxTextObj), cm \in {"ok", "none"}}

\* The caller cancels the Reader of matchTransform between two reads.
MoCancelStep ==
    /\ mo.on
    /\ mo.pc = "idle"
    /\ mo.ncancel < MaxCancels
    /\ \E reason \in Reasons : mo' = MoCancel(mo, reason)
    /\ UNCHANGED <<flatVars, controller, mt, pipe>>

NextTransformCancel == Next \/ NextMatchObj \/ MoCancelStep

SpecTransformCancel == (InitEvalCancel \/ InitMoCancel) /\ [][NextTransformCancel]_vars

(***************************************************************************)
(* Properties                                                              *)
(***************************************************************************)
IsPrefix(p, q) == Len(p) <= Len(q) /\ p = SubSeq(q, 1, Len(p))

\* The depth-first, left-to-right flattening of nested arrays.
RECURSIVE Flatten(_)
Flatten(items) ==
    IF items = <<>> THEN <<>>
    ELSE (IF IsArray(Head(items)) THEN Flatten(Head(items).sub) ELSE <<Head(items)>>)
         \o Flatten(Tail(items))

\* C1: over nested arrays whose leaves are strings, what readToArray has
\* collected from the FlatStreamReader is at every moment a prefix of the
\* depth-first, left-to-right flattening of the input, readToArray never
\* rejects, and when it resolves it resolves to exactly that flattening.
C1_DepthFirstFlattening ==
    /\ IsPrefix(accum, Flatten(input.sub))
    /\ pumpState # "rejected"
    /\ (pumpState = "resolved" => accum = Flatten(input.sub))

\* [a, [b, a], b] has been drained to [a, b, a, b].
C1_Witness ==
    /\ pumpState = "resolved"
    /\ input = Arr(<<Str("a"), Arr(<<Str("b"), Str("a")>>), Str("b")>>)
    /\ accum = <<Str("a"), Str("b"), Str("a"), Str("b")>>

\* A value the caller may be handed: no callable, promise-like, array, Reader
\* or stream.
IsPlain(c) ==
    ~IsFunction(c) /\ ~HasThen(c) /\ ~IsArray(c) /\ ~HasRead(c) /\ ~HasGetReader(c)

\* C2: no value a read() of the FlatStreamReader returns with done=false is
\* a callable, a promise-like, an array, a Reader or a stream.
C2_OnlyPlainValues == (pc = "settled" /\ ~res.fail /\ ~res.done) => IsPlain(res.value)

\* C3: readToArray(toReader(seq)) resolves to seq: the same elements, in the
\* same order, of the same length; it never rejects.
C3_ArrayRoundTrip ==
    /\ top = "plain"
    /\ IsPrefix(accum, input.sub)
    /\ pumpState # "rejected"
    /\ (pumpState = "resolved" => accum = input.sub /\ Len(accum) = Len(input.sub))

\* An array of three elements with falsy ones among them has been drained.
C3_Witness ==
    /\ pumpState = "resolved"
    /\ input = Arr(<<Null, Str(""), Str("a")>>)
    /\ accum = <<Null, Str(""), Str("a")>>

\* C4: the ArrayReader of src/lib/index.js yields the elements of the wrapped
\* sequence in order, first element first, and then signals done.
C4_LibArrayReaderInOrder ==
    /\ IsPrefix(accum, input.sub)
    /\ (pumpState = "resolved" => accum = input.sub)

\* C5: once a read() has returned done=true, every later read() returns
\* done=true, emits nothing and leaves the cursor and the stack as they were.
C5_IdempotentExhaustion ==
    [][exhausted =>
        /\ subStreamReaderStack' = subStreamReaderStack
        /\ reader'.index = reader.index
        /\ (ncancel' = ncancel => reader' = reader)
        /\ calls' = calls
        /\ accum' = accum
        /\ (pc' = "settled" => res'.done /\ ~res'.fail)]_vars

\* A read() issued after the FlatStreamReader reported done has settled.
C5_Witness ==
    /\ top = "flat"
    /\ pumpState = "resolved"
    /\ pc = "settled"
    /\ Len(accum) >= 2

\* What the documented evaluation rules make of a sequence of chunks: a
\* function is called and its result evaluated, a promise is awaited and its
\* value evaluated, a nested source is spliced in and each of its values
\* evaluated, everything else is passed through.
RECURSIVE Evaluated(_)
Evaluated(items) ==
    IF items = <<>> THEN <<>>
    ELSE LET c == Head(items)
         IN  (IF IsString(c) THEN <<c>>
              ELSE IF IsFunction(c) \/ (HasThen(c) /\ c.id = "resolve") THEN Evaluated(c.sub)
              ELSE IF HasThen(c) THEN <<>>
              ELSE IF IsArray(c) \/ HasRead(c) \/ HasGetReader(c) THEN Evaluated(c.sub)
              ELSE <<c>>)
             \o Evaluated(Tail(items))

\* C6: every function chunk is called with the context object given at
\* construction, and what is emitted in its place is the re-classified result
\* of the call.
C6_FunctionResultEvaluated ==
    /\ \A i \in 1..Len(calls) : calls[i].arg = ctx
    /\ (pumpState = "resolved" => accum = Evaluated(input.sub))

\* C7: when an awaited promise rejects with e, the read() fails with e and
\* delivers no value, readToArray rejects with e, reads no further and never
\* resolves.
C7_RejectionPropagates ==
    /\ (pumpState = "rejected") = (rejErr # <<>> /\ pc = "idle")
    /\ rejErr # <<>> =>
        /\ Len(rejErr) = 1
        /\ pumpState # "resolved"
        /\ pc \in {"settled", "idle"}
        /\ (pc = "settled" => res.fail /\ res.value = rejErr[1])
        /\ (pc = "idle" => pumpErr = <<rejErr[1]>>)
        /\ nreads = Len(accum) + 1

\* readToArray has rejected with the error of a promise that a function
\* chunk returned, after one value had been collected.
C7_Witness ==
    /\ input = Arr(<<Str("a"), Fn(Rejecting("e1"))>>)
    /\ pumpState = "rejected"
    /\ pumpErr = <<Err("e1")>>
    /\ accum = <<Str("a")>>
    /\ nreads = 2

C9_CancelAttemptsAll ==
    [][ncancel' = ncancel + 1 =>
        /\ \A i \in 1..Len(subStreamReaderStack) :
              subStreamReaderStack'[i].cancels =
                  Append(subStreamReaderStack[i].cancels, cancelRet'.reason)
        /\ reader'.cancels = Append(reader.cancels, cancelRet'.reason)]_vars

RECURSIVE Concat(_)
Concat(ss) == IF ss = <<>> THEN <<>> ELSE Head(ss) \o Concat(Tail(ss))

\* Adjacent pieces of text joined.
RECURSIVE Coalesce(_)
Coalesce(vs) ==
    IF Len(vs) < 2 THEN vs
    ELSE IF vs[1].t = "text" /\ vs[2].t = "text"
    THEN Coalesce(<<Text(vs[1].s \o vs[2].s)>> \o SubSeq(vs, 3, Len(vs)))
    ELSE <<vs[1]>> \o Coalesce(Tail(vs))

\* What the matcher makes of the whole text, with the remainder flushed.
WholeMatch(chunks) ==
    LET w == matchFn(Concat(chunks))
    IN  Coalesce(AddText(w.matches, w.remainder))

\* C10: the matcher is called once per input chunk, with the remainder it
\* returned last in front of the new chunk; so what the transform emits does
\* not depend on where the input was cut: a match that spans chunks is
\* emitted once, whole.
C10_PartialMatchAcrossChunks ==
    /\ Len(mt.args) = mt.i
    /\ \A j \in 1..Len(mt.args) :
          mt.args[j] = (IF j = 1 THEN <<>> ELSE matchFn(mt.args[j - 1]).remainder)
                       \o mt.chunks[j]
    /\ (mt.state = "resolved" => Coalesce(mt.out) = WholeMatch(mt.chunks))

\* "ab" then "c" has been drained to the one match of "abc".
C10_Witness ==
    /\ mt.state = "resolved"
    /\ mt.chunks = << <<"a", "b">>, <<"c">> >>
    /\ mt.out = <<MatchOf(Pattern)>>

SpecExhaust == (InitPlain \/ InitEval) /\ [][Next]_vars

\* C11: in the matcher-object matchTransform, when the input Reader signals
\* done while the last match result has done=false (the pending values are
\* empty then, the input is read only when they are), the read() fails with
\* the error "MatchTransform: No full match, but input stream terminated!",
\* matcher.reset() has been called once if the matcher has one, and nothing
\* is returned as done=true or flushed as a value.
C11_FailOnIncompleteMatch ==
    [][(mo.on /\ mo.pc = "read" /\ mo.i = Len(mo.chunks) /\ ~mo.curMatch.done) =>
        /\ mo.curMatch.values = <<>>
        /\ mo'.pc = "settled"
        /\ mo'.res = MoFailed(NoFullMatch)
        /\ mo'.matcher.resets = mo.matcher.resets + (IF mo.matcher.hasReset THEN 1 ELSE 0)
        /\ mo'.matcher.args = mo.matcher.args
        /\ mo'.curMatch = mo.curMatch
        /\ mo'.out = mo.out]_vars

\* "ab" was all the input: the consumer's read has failed with the error, the
\* matcher has been reset, no value was emitted.
C11_Witness ==
    /\ mo.on
    /\ mo.chunks = << <<"a", "b">> >>
    /\ mo.state = "rejected"
    /\ mo.err = <<NoFullMatch>>
    /\ mo.matcher.resets = 1
    /\ mo.out = <<>>

\* The matches of the matcher's calls, one call after the other.
RECURSIVE MatchesOf(_)
MatchesOf(args) ==
    IF args = <<>> THEN <<>> ELSE matchFn(Head(args)).matches \o MatchesOf(Tail(args))

\* C12: in the remainder-based matchTransform, when the input Reader signals
\* done with a non-empty remainder the read() returns the remainder as a
\* value (done=false) and clears it, with an empty remainder it returns
\* done=true; so the drained output is what the matcher's calls matched
\* followed by the last remainder, once, when that is not empty.
C12_FlushRemainder ==
    /\ [](mt.on /\ mt.state = "resolved" =>
            mt.out = AddText(MatchesOf(mt.args),
                             IF mt.args = <<>> THEN <<>>
                             ELSE matchFn(mt.args[Len(mt.args)]).remainder))
    /\ [][(mt.on /\ mt.pc = "read" /\ mt.i = Len(mt.chunks)) =>
            /\ mt'.pc = "settled"
            /\ mt'.args = mt.args
            /\ mt'.curMatch = [matches |-> <<>>, remainder |-> <<>>]
            /\ mt'.res = IF mt.curMatch.remainder # <<>>
                         THEN mtReturn(Text(mt.curMatch.remainder), FALSE)
                         ELSE mtReturn(Text(<<>>), TRUE)]_vars

\* "cab" was all the input: "c" and then the remainder "ab" have been emitted
\* and the Reader has ended.
C12_Witness ==
    /\ mt.on
    /\ mt.chunks = << <<"c", "a", "b">> >>
    /\ mt.state = "resolved"
    /\ mt.out = <<Text(<<"c">>), Text(<<"a", "b">>)>>

\* What the values become that pass through the transforms, first transform
\* first.
RECURSIVE ThroughAll(_, _)
ThroughAll(fns, v) ==
    IF fns = <<>> THEN v ELSE WrapBy(fns[Len(fns)], ThroughAll(SubSeq(fns, 1, Len(fns) - 1), v))

\* C13: when transformStream(input, transforms) has returned, transform i
\* has been called exactly once, with the Reader transform i-1 returned (the
\* Reader of the input for the first); the stream reads only the Reader the
\* last transform returned; and what the stream enqueues are the input's
\* values passed through the transforms from left to right.
C13_TransformsLeftToRight ==
    (pipe.on /\ pipe.phase = "returned") =>
        /\ Len(pipe.made) = Len(pipe.transforms.sub)
        /\ \A j \in 1..Len(pipe.made) :
              pipe.made[j] = [fn |-> pipe.transforms.sub[j], arg |-> j - 1]
        /\ pipe.final = Len(pipe.transforms.sub)
        /\ \A j \in 1..Len(pipe.reads) :
              pipe.reads[j].by = <<>> => pipe.reads[j].on = pipe.final
        /\ Len(controller.queue) <= Len(pipe.input.sub)
        /\ \A j \in 1..Len(controller.queue) :
              controller.queue[j] = ThroughAll(pipe.transforms.sub, pipe.input.sub[j])
        /\ (controller.state = "closed" => Len(controller.queue) = Len(pipe.input.sub))

\* [a, b] through [F, G] has been drained: G(F(a)), G(F(b)).
C13_Witness ==
    /\ pipe.on
    /\ pipe.input = Arr(<<Str("a"), Str("b")>>)
    /\ pipe.transforms = Arr(<<Transform("F"), Transform("G")>>)
    /\ controller.state = "closed"
    /\ controller.queue = <<WrapBy(Transform("G"), WrapBy(Transform("F"), Str("a"))),
                            WrapBy(Transform("G"), WrapBy(Transform("F"), Str("b")))>>

\* C14: a call of transformStream whose transforms is not an array throws
\* from the call itself: no stream is returned, no transform has been called
\* and no read() has been made on the input.
C14_FailFast ==
    (pipe.on /\ pipe.phase # "start" /\ ~IsArray(pipe.transforms)) =>
        /\ pipe.phase = "threw"
        /\ pipe.err = <<TransformsExpected>>
        /\ pipe.made = <<>>
        /\ pipe.reads = <<>>
        /\ pipe.i = 0
        /\ controller = CtlIdle

\* The call with a function in place of the array of transforms has thrown.
C14_Witness ==
    /\ pipe.on
    /\ pipe.transforms = Transform("F")
    /\ pipe.input = Arr(<<Str("a")>>)
    /\ pipe.phase = "threw"
    /\ pipe.err = <<TransformsExpected>>

\* C15: the stream adapter makes one read() per pull; when the read has
\* settled it closes the stream and enqueues nothing if the read is done,
\* enqueues the one value read otherwise, and if the read failed the pull
\* fails with the same error: nothing is enqueued and the stream is not
\* closed.
C15_OneReadPerPull ==
    /\ [](consumer = "stream" =>
            /\ nreads = controller.pulls
            /\ controller.pulls = Len(controller.queue)
                                  + (IF controller.state = "readable" THEN 0 ELSE 1)
                                  + (IF pc = "idle" THEN 0 ELSE 1))
    /\ [][(consumer = "stream" /\ pc = "settled" /\ pc' = "idle") =>
            IF res.fail
            THEN /\ controller'.state = "errored"
                 /\ controller'.err = <<res.value>>
                 /\ controller'.queue = controller.queue
            ELSE IF res.done
            THEN /\ controller'.state = "closed"
                 /\ controller'.queue = controller.queue
            ELSE /\ controller'.state = "readable"
                 /\ controller'.queue = Append(controller.queue, res.value)]_vars

\* Two pulls over ['a', rejecting promise]: 'a' was enqueued, the second pull
\* failed with the promise's error.
C15_Witness ==
    /\ consumer = "stream"
    /\ input = Arr(<<Str("a"), Rejecting("e1")>>)
    /\ controller.pulls = 2
    /\ controller.queue = <<Str("a")>>
    /\ controller.state = "errored"
    /\ controller.err = <<Err("e1")>>

\* C16: toReader(input) gives back the input itself when it exposes read,
\* also when it exposes getReader or is an array as well; else the Reader
\* input.getReader() returns when it exposes getReader; else an ArrayReader
\* that yields the elements in order when it is an array; and for every other
\* input an ArrayReader that yields the input once and then done.
C16_ToReaderDispatch ==
    LET cls == IF HasRead(input) THEN "Reader"
               ELSE IF HasGetReader(input) THEN "StreamReader"
               ELSE "ArrayReader"
        yields == IF HasRead(input) \/ HasGetReader(input) \/ IsArray(input)
                  THEN input.sub ELSE <<input>>
    IN  /\ reader.cls = cls
        /\ reader.arr = yields
        /\ IsPrefix(accum, yields)
        /\ pumpState # "rejected"
        /\ (pumpState = "resolved" => accum = yields)

\* toReader of an object that exposes read and getReader has been drained;
\* the Reader is the object itself.
C16_Witness ==
    /\ input = Hybrid("read+getReader", <<Str("a"), Null>>)
    /\ reader.cls = "Reader"
    /\ pumpState = "resolved"
    /\ accum = <<Str("a"), Null>>

\* C17: readToArray and readToString issue a read() only while they are
\* pumping, the first one at once and every other one after a read that gave a
\* value, so none after a done and none after a failure; a read that is done
\* resolves the promise with what has been accumulated, a read that failed
\* rejects it with the failure; and once resolved or rejected the promise
\* stays as it is. So n values cost n + 1 reads.
C17_DrainStopsAtDoneOrFailure ==
    /\ []((consumer = "readToArray" /\ pumpState = "resolved") => nreads = Len(accum) + 1)
    /\ [][nreads' # nreads =>
            /\ nreads' = nreads + 1
            /\ pumpState = "pumping"
            /\ pc = "idle"
            /\ (nreads > 0 => ~res.fail /\ ~res.done)]_vars
    /\ [][(pumpState = "pumping" /\ pc = "settled" /\ pc' = "idle") =>
            /\ (res.fail => pumpState' = "rejected" /\ pumpErr' = <<res.value>>
                            /\ accum' = accum)
            /\ (~res.fail /\ res.done => pumpState' = "resolved" /\ accum' = accum)]_vars
    /\ [][pumpState # "pumping" =>
            /\ pumpState' = pumpState
            /\ accum' = accum
            /\ pumpErr' = pumpErr
            /\ nreads' = nreads]_vars

\* readToString over the two bytes of one letter, in two chunks, and a
\* promise that rejects: three reads, rejected with the promise's error.
C17_Witness ==
    /\ consumer = "readToString"
    /\ input = Arr(<<Bytes(<<"C3">>), Bytes(<<"A9">>), Rejecting("e1")>>)
    /\ pumpState = "rejected"
    /\ pumpErr = <<Err("e1")>>
    /\ accum = <<"e-acute">>
    /\ nreads = 3

\* C18: over an input of strings only the FlatStreamReader emits exactly
\* those strings, in their order, one per read(): no frame is ever on the
\* stack, nothing is invoked, and a read() takes one chunk from the input.
C18_StringsPassThrough ==
    LET strings == IF IsString(input) THEN <<input>> ELSE input.sub
    IN  /\ subStreamReaderStack = <<>>
        /\ calls = <<>>
        /\ IsPrefix(accum, strings)
        /\ pumpState # "rejected"
        /\ (pumpState = "resolved" => accum = strings)
        /\ reader.index <= nreads
        /\ (pumpState = "pumping" /\ pc = "idle" => reader.index = Len(accum))
        /\ (pc = "settled" /\ ~res.done => res.value = strings[reader.index])

\* A stream of 'a', '', 'b' has been drained.
C18_Witness ==
    /\ input = StreamObj(<<Str("a"), Str(""), Str("b")>>)
    /\ pumpState = "resolved"
    /\ accum = <<Str("a"), Str(""), Str("b")>>
    /\ nreads = 4

\* C19: a nested source without values (an empty array, a Reader or a stream
\* that is done at once) does not end the FlatStreamReader: a read() returns
\* done=true only when the stack is empty and every value of the input, the
\* nested sources spliced in, has been emitted; the drain gives exactly these
\* values.
C19_NoPrematureDone ==
    /\ IsPrefix(accum, Evaluated(input.sub))
    /\ pumpState # "rejected"
    /\ (pumpState = "resolved" => accum = Evaluated(input.sub))
    /\ (pc = "settled" /\ res.done =>
            /\ subStreamReaderStack = <<>>
            /\ reader.index = Len(reader.arr)
            /\ accum = Evaluated(input.sub))

\* [a, [], b] has been drained to [a, b].
C19_Witness ==
    /\ input = Arr(<<Str("a"), Arr(<<>>), Str("b")>>)
    /\ pumpState = "resolved"
    /\ accum = <<Str("a"), Str("b")>>

\* C20: as long as no read() has been called on the Reader that toReader,
\* new FlatStreamReader or a makeReader of evalTransform or matchTransform
\* returned, nothing has been read from the input, no chunk function has been
\* called and the matcher has not been called: the first low-level read
\* belongs to the first read().
C20_LazyWrapping ==
    /\ (~mt.on /\ ~mo.on /\ nreads = 0) =>
            /\ pc = "idle"
            /\ reader.index = 0
            /\ subStreamReaderStack = <<>>
            /\ calls = <<>>
    /\ (mt.on /\ mt.pc = "idle" /\ mt.state = "pumping" /\ mt.out = <<>>) =>
            /\ mt.i = 0
            /\ mt.args = <<>>
    /\ (mo.on /\ mo.reads = 0) =>
            /\ mo.i = 0
            /\ mo.lowReads = 0
            /\ mo.matcher.args = <<>>
            /\ mo.matcher.resets = 0

\* The first read() of a FlatStreamReader over a Reader of one function has
\* settled: one chunk was read and the function was called, in that read().
C20_Witness ==
    /\ top = "flat"
    /\ input = ReaderObj("ok", <<Fn(Str("a"))>>)
    /\ nreads = 1
    /\ pc = "settled"
    /\ reader.index = 1
    /\ Len(calls) = 1

AtEnd(r) == r.index = Len(r.arr)

\* One step of the FlatStreamReader keeps the stack discipline.
StackStep ==
    LET stk  == subStreamReaderStack
        stk2 == subStreamReaderStack'
        n    == Len(stk)
        n2   == Len(stk2)
    IN  /\ n2 \in {n - 1, n, n + 1}
        \* a push happens in the callback of a read or of a promise, the new
        \* frame is unread and the next thing done is to read it
        /\ n2 = n + 1 =>
                /\ pc \in {"read", "await"}
                /\ pc' = "read"
                /\ stk2[n2].index = 0
                /\ \A i \in 1..n : stk2[i].arr = stk[i].arr
        \* a pop happens exactly when the read of the top frame returns done
        /\ (pc = "read" /\ n > 0 /\ AtEnd(TopFrame(stk))) =>
                /\ stk2 = PopFrame(stk)
                /\ pc' = "read"
        /\ n2 = n - 1 => (pc = "read" /\ AtEnd(TopFrame(stk)) /\ stk2 = PopFrame(stk))
        \* with a frame on the stack only the top frame is read
        /\ n > 0 =>
                /\ reader'.index = reader.index
                /\ \A i \in 1..(n - 1) : i <= n2 /\ stk2[i].index = stk[i].index
                /\ (pc = "read" /\ ~AtEnd(TopFrame(stk))) =>
                        (n2 >= n /\ stk2[n].index = stk[n].index + 1)

\* C21: in the FlatStreamReader of part_000 a frame is pushed only when a
\* nested source is found and is the next thing read, a frame is popped exactly
\* when its own read() returns done, the base Reader is not read while the
\* stack is non-empty, and a read() that returns done=true leaves the stack
\* empty and the base Reader at its end.
C21_StackDiscipline ==
    /\ [](pc = "settled" /\ res.done /\ ~res.fail =>
            subStreamReaderStack = <<>> /\ AtEnd(reader))
    /\ [][StackStep]_vars

\* [[[a]]]: a has been read from the innermost of two stacked frames.
C21_Witness ==
    /\ input = Arr(<<Arr(<<Arr(<<Str("a")>>)>>)>>)
    /\ Len(subStreamReaderStack) = 2
    /\ pc = "settled"
    /\ res.value = Str("a")

\* C22: in the single-slot FlatStreamReader of src/lib/index.js no value of
\* a nested source is lost, also when a nested source yields a further nested
\* source: a drain of a stream of strings and nested streams gives every
\* string, depth first and in order.
C22_NestedSourceDrained ==
    /\ IsPrefix(accum, Evaluated(input.sub))
    /\ (pumpState = "resolved" => accum = Evaluated(input.sub))

\* C23: in the matcher-object matchTransform, when the input Reader signals
\* done and the matcher holds no incomplete match (an input of zero chunks
\* among the cases), the read() returns done=true and does not fail.
C23_DoneWithoutIncompleteMatch ==
    [][(mo.on /\ mo.state = "pumping" /\ mo.pc = "read" /\ mo.i = Len(mo.chunks)
            /\ mo.matcher.buf = <<>>) =>
        /\ mo'.pc = "settled"
        /\ mo'.res = moReturn(NoValue, TRUE)]_vars

\* The values the matcher has returned, given the chunks it was called with.
RECURSIVE MoProduced(_, _)
MoProduced(buf, args) ==
    IF args = <<>> THEN <<>>
    ELSE LET r == MoScan(buf \o Head(args), 1, <<>>)
         IN  r.values \o MoProduced(r.buf, Tail(args))

\* What the reads of the transform have returned so far: what the consumer
\* has collected and the value of a read it has not taken yet.
MoEmitted ==
    mo.out \o (IF mo.state = "pumping" /\ mo.pc = "settled" /\ ~mo.res.fail /\ ~mo.res.done
               THEN <<mo.res.value>> ELSE <<>>)

NonStrings(vs) == SelectSeq(vs, LAMBDA v : v.t # "text")

\* C24: in the matcher-object matchTransform a read() made while values are
\* pending returns from them and does not read the input; the values are
\* emitted in the order the matcher produced them; a returned string is the
\* whole run of adjacent strings of its match result, and strings are never
\* joined across a non-string value: what has been emitted and what is
\* pending is, adjacent strings joined, what the matcher produced, and the
\* non-string values are emitted once each, in order.
C24_PendingQueue ==
    /\ [](mo.on =>
            /\ Coalesce(MoEmitted \o mo.curMatch.values)
                   = Coalesce(MoProduced(<<>>, mo.matcher.args))
            /\ IsPrefix(NonStrings(MoEmitted), NonStrings(MoProduced(<<>>, mo.matcher.args)))
            /\ (mo.pc = "settled" /\ ~mo.res.fail /\ ~mo.res.done /\ mo.res.value.t = "text"
                    /\ mo.curMatch.values # <<>>) => mo.curMatch.values[1].t # "text")
    /\ [][(mo.on /\ mo.pc = "idle" /\ mo.curMatch.values # <<>> /\ mo'.reads = mo.reads + 1) =>
            /\ mo'.pc = "settled"
            /\ ~mo'.res.done /\ ~mo'.res.fail
            /\ mo'.lowReads = mo.lowReads
            /\ mo'.i = mo.i
            /\ mo'.matcher = mo.matcher
            /\ \E k \in 1..Len(mo.curMatch.values) :
                    /\ mo'.curMatch.values = SubSeq(mo.curMatch.values, k + 1,
                                                    Len(mo.curMatch.values))
                    /\ <<mo'.res.value>> = Coalesce(SubSeq(mo.curMatch.values, 1, k))]_vars

\* "babc" in one chunk: the first read returned "b", the second returned the
\* match from the pending values without reading the input, the third read
\* the input again and returned done.
C24_Witness ==
    /\ mo.on
    /\ mo.chunks = << <<"b", "a", "b", "c">> >>
    /\ mo.state = "resolved"
    /\ mo.out = <<Text(<<"b">>), MatchOf(Pattern)>>
    /\ mo.reads = 3
    /\ mo.lowReads = 2

\* What is still to be read from a Reader.
Rest(r) == SubSeq(r.arr, r.index + 1, Len(r.arr))

\* What the frames of the stack, the top one first, and then the base Reader
\* have still to give.
RECURSIVE Unread(_, _)
Unread(stk, rd) ==
    IF stk = <<>> THEN Evaluated(Rest(rd))
    ELSE Evaluated(Rest(TopFrame(stk))) \o Unread(PopFrame(stk), rd)

\* The value of a read() that has settled and that readToArray has not taken.
InFlight ==
    IF pumpState = "pumping" /\ pc = "settled" /\ ~res.done /\ ~res.fail
    THEN <<res.value>> ELSE <<>>

\* The low-level read() calls that have not resolved yet.
PendingReads == (IF pc = "read" THEN 1 ELSE 0) + (IF mo.on /\ mo.pc = "read" THEN 1 ELSE 0)

\* How far the step moves the cursor of the base Reader and of the frames.
Advances ==
    LET stk  == subStreamReaderStack
        stk2 == subStreamReaderStack'
    IN  [i \in 0..Len(stk) |->
            IF i = 0 THEN reader'.index - reader.index
            ELSE IF i <= Len(stk2) THEN stk2[i].index - stk[i].index
            ELSE 0]

\* C25: with one consumer that reads again only after its read has settled,
\* FlatStreamReader and the matcher-object matchTransform have at most one
\* low-level read pending on the input and the stacked Readers together, a
\* step reads at most one value from one of them, and no value is held
\* between reads but in matchTransform's pending queue: every value of the
\* input has been emitted or is still unread in its source, and every chunk
\* read from matchTransform's input has been handed to the matcher.
C25_OneReadNoBuffer ==
    /\ [](/\ PendingReads <= 1
          /\ ~mo.on => accum \o InFlight \o Unread(subStreamReaderStack, reader)
                           = Evaluated(input.sub)
          /\ mo.on =>
                /\ mo.matcher.args = SubSeq(mo.chunks, 1, mo.i)
                /\ (mo.i < Len(mo.chunks) =>
                        mo.lowReads - mo.i = IF mo.pc = "read" THEN 1 ELSE 0))
    /\ [][/\ \A i \in DOMAIN Advances : Advances[i] \in {0, 1}
          /\ \A i, j \in DOMAIN Advances : Advances[i] = 1 /\ Advances[j] = 1 => i = j
          /\ (\E i \in DOMAIN Advances : Advances[i] = 1) => pc = "read"
          /\ mo.on => (mo'.i - mo.i \in {0, 1} /\ (mo'.i # mo.i => mo.pc = "read"))]_vars

\* [[b], a]: b has been read from the frame of [b] and not been taken yet,
\* a is still unread in the base Reader.
C25_Witness ==
    /\ input = Arr(<<Arr(<<Str("b")>>), Str("a")>>)
    /\ pc = "settled"
    /\ accum = <<>>
    /\ InFlight = <<Str("b")>>
    /\ Unread(subStreamReaderStack, reader) = <<Str("a")>>

\* What evalTransform makes of the chunks of its input when each chunk is
\* evaluated once and nothing that comes out of it is evaluated again: a
\* function is called, a stream (the chunk or the function's result) gives
\* its values as they are, a promise gives the value it resolves to as it is.
RECURSIVE EvaluatedOnce(_)
EvaluatedOnce(items) ==
    IF items = <<>> THEN <<>>
    ELSE LET c == IF IsFunction(Head(items)) THEN Head(items).sub[1] ELSE Head(items)
         IN  (IF Truthy(c) /\ c.k = "stream" THEN c.sub
              ELSE IF Truthy(c) /\ HasThen(c) THEN <<c.sub[1]>>
              ELSE <<c>>)
             \o EvaluatedOnce(Tail(items))

\* The function chunks among the chunks read from the input.
FunctionChunks(items) == SelectSeq(items, IsFunction)

\* C26: in the evalTransform of src/index.js (158-208) a value read from the
\* active sub-stream is returned as read: a function in it is not called, a
\* promise not awaited, a stream not spliced; and the value a promise chunk
\* resolves to is emitted without being classified again. Only the function
\* chunks of the input itself are called.
C26_SubStreamNotEvaluated ==
    /\ IsPrefix(accum, EvaluatedOnce(input.sub))
    /\ pumpState # "rejected"
    /\ (pumpState = "resolved" => accum = EvaluatedOnce(input.sub))
    /\ calls = [i \in 1..Len(FunctionChunks(SubSeq(input.sub, 1, reader.index))) |->
                    [f |-> FunctionChunks(input.sub)[i], arg |-> ctx]]
    /\ (pc = "settled" /\ subStreamReaderStack # <<>> /\ ~res.done =>
            res.value = subStreamReaderStack[1].arr[subStreamReaderStack[1].index])

\* A stream whose one chunk is a stream of one function: the function has
\* been handed to the consumer, uncalled.
C26_Witness ==
    /\ top = "eval"
    /\ input = StreamObj(<<StreamObj(<<Fn(Null)>>)>>)
    /\ pumpState = "resolved"
    /\ accum = <<Fn(Null)>>
    /\ calls = <<>>

\* The class of a chunk that is no string and, if it was a function, has been
\* called: the first of falsy, array, promise-like, Reader-capable,
\* stream-capable that applies, and a plain value otherwise.
ClassOf(c) ==
    IF ~Truthy(c) THEN "value"
    ELSE IF IsArray(c) THEN "array"
    ELSE IF HasThen(c) THEN "promise"
    ELSE IF HasRead(c) THEN "reader"
    ELSE IF HasGetReader(c) THEN "stream"
    ELSE "value"

\* The Reader the pending read is made on, and the chunk it will yield.
ReadFrom == IF subStreamReaderStack = <<>> THEN reader ELSE TopFrame(subStreamReaderStack)

NextChunk == ReadFrom.arr[ReadFrom.index + 1]

\* C27: _handleReadRes classifies a chunk by the first test that applies, in
\* the order string, callable (called, its result classified by the tests that
\* follow), falsy, array, promise-like, Reader-capable, stream-capable,
\* anything else: a promise-like value that can also be read is awaited, an
\* array with a then or a read property is spliced as an array, and a value
\* with read and getReader is pushed as the Reader it is.
C27_ClassificationOrder ==
    [][(pc = "read" /\ ReadFrom.index < Len(ReadFrom.arr)) =>
        LET c0   == NextChunk
            c    == IF IsFunction(c0) THEN c0.sub[1] ELSE c0
            n    == Len(subStreamReaderStack)
            stk2 == subStreamReaderStack'
            cls  == IF IsString(c0) THEN "value" ELSE ClassOf(c)
        IN  /\ calls' = IF IsFunction(c0) THEN Append(calls, [f |-> c0, arg |-> ctx]) ELSE calls
            /\ cls = "value" =>
                    pc' = "settled" /\ res' = readerReturn(c, FALSE) /\ Len(stk2) = n
            /\ cls = "array" =>
                    pc' = "read" /\ Len(stk2) = n + 1 /\ stk2[n + 1] = StackArrayReader(c.sub)
            /\ cls = "promise" => pc' = "await" /\ cur' = c /\ Len(stk2) = n
            /\ cls = "reader" =>
                    /\ pc' = "read" /\ Len(stk2) = n + 1
                    /\ stk2[n + 1].cls = "Reader" /\ stk2[n + 1].arr = c.sub
            /\ cls = "stream" =>
                    /\ pc' = "read" /\ Len(stk2) = n + 1
                    /\ stk2[n + 1].cls = "StreamReader" /\ stk2[n + 1].arr = c.sub]_vars

\* A chunk with then and read is being awaited, nothing was pushed.
C27_Witness ==
    /\ input = Arr(<<Hybrid("then+read", <<Str("a")>>)>>)
    /\ pc = "await"
    /\ cur = Hybrid("then+read", <<Str("a")>>)
    /\ subStreamReaderStack = <<>>

\* C28: a falsy chunk (null, undefined, 0, false, the empty string), and a
\* falsy result of a function or of a promise that resolves, is emitted by the
\* FlatStreamReader of part_000 as a value with done=false: nothing is pushed
\* or awaited for it, no read fails, it is not skipped and not taken for the
\* end of the stream, and readToArray has it at its position.
C28_FalsyEmitted ==
    /\ [](/\ IsPrefix(accum, Evaluated(input.sub))
          /\ pumpState # "rejected"
          /\ (pumpState = "resolved" => accum = Evaluated(input.sub))
          /\ (pc = "settled" => ~res.fail)
          /\ (pc = "settled" /\ res.done =>
                subStreamReaderStack = <<>> /\ AtEnd(reader)))
    /\ [][LET c0 == NextChunk
              c  == IF IsFunction(c0) THEN c0.sub[1] ELSE c0
          IN  /\ (pc = "read" /\ ReadFrom.index < Len(ReadFrom.arr) /\ ~Truthy(c)) =>
                    /\ pc' = "settled"
                    /\ res' = readerReturn(c, FALSE)
                    /\ Len(subStreamReaderStack') = Len(subStreamReaderStack)
              /\ (pc = "await" /\ ~Truthy(cur.sub[1])) =>
                    /\ pc' = "settled"
                    /\ res' = readerReturn(cur.sub[1], FALSE)
                    /\ subStreamReaderStack' = subStreamReaderStack]_vars

\* [() => 0, null, Promise.resolve(false)] has been drained to
\* [0, null, false].
C28_Witness ==
    /\ input = Arr(<<Fn(Zero), Null, Resolving(False)>>)
    /\ pumpState = "resolved"
    /\ accum = <<Zero, Null, False>>

\* C29: for a finite input whose nested sources are finite and finitely
\* nested, whose functions return and whose promises resolve, a consumer that
\* keeps calling read() on the FlatStreamReader eventually gets done=true
\* (readToArray resolves), and every read() that is pending settles.
C29_Termination ==
    /\ <>(pumpState = "resolved" /\ exhausted)
    /\ (pc \in {"read", "await"}) ~> (pc = "settled")

\* [[() => 'a']] has been drained: the first read went through a frame and a
\* call before it settled, the second through the end of the frame and the
\* end of the input.
C29_Witness ==
    /\ input = Arr(<<Arr(<<Fn(Str("a"))>>)>>)
    /\ pumpState = "resolved"
    /\ exhausted
    /\ accum = <<Str("a")>>
    /\ nreads = 2

\* C30: when transformStream throws because transforms is not an array, no
\* Reader has been acquired from the caller's input stream: getReader has not
\* been called on it and it is left unlocked.
C30_InputUntouchedOnThrow ==
    (pipe.on /\ pipe.phase = "threw" /\ HasGetReader(pipe.input)) => pipe.locked = 0

\* C31: after cancel() on an ArrayReader of part_000 that still has unread
\* elements, every later read() returns done=true and yields none of the
\* elements that were left.
C31_CancelledArrayReaderIsDone ==
    (top = "plain" /\ variant = "stack" /\ reader.cls = "ArrayReader"
        /\ reader.cancels # <<>> /\ pc = "settled") => res.done

\* The value of a read() made by pull that the callback of pull has not
\* handled yet.
PulledValue == IF pc = "settled" /\ ~res.done /\ ~res.fail THEN <<res.value>> ELSE <<>>

\* C32: for a Reader r over a finite sequence of values, the drain of
\* toReader(toStream(r)) gives the values the drain of r itself gives, in the
\* same order: the pull adapter drops, repeats and reorders nothing (what was
\* taken from the stream, what waits in its queue, what pull has just read
\* and what r has still to give is always the sequence of r), and the stream
\* is closed exactly when r has signalled done.
C32_RoundTrip ==
    HasRead(input) =>
        /\ (pumpState = "resolved" => accum = input.sub)
        /\ (pumpState = "drained" => accum = input.sub)
        /\ pumpState # "rejected"
        /\ (consumer = "stream" =>
                /\ accum \o controller.queue \o PulledValue \o Rest(reader) = input.sub
                /\ (controller.state = "closed" => exhausted /\ AtEnd(reader))
                /\ (exhausted /\ pc = "idle" => controller.state = "closed")
                /\ controller.state # "errored")

\* The stream over a Reader of a, null, b has been drained to [a, null, b].
C32_Witness ==
    /\ consumer = "stream"
    /\ input = ReaderObj("ok", <<Str("a"), Null, Str("b")>>)
    /\ pumpState = "drained"
    /\ accum = <<Str("a"), Null, Str("b")>>
    /\ controller.pulls = 4

\* C33: cancel(reason) on the Reader of evalTransform and of the
\* matcher-object matchTransform calls cancel once on the input Reader when
\* it has a cancel method, and on the active sub-stream Reader of
\* evalTransform, and returns what the input Reader's cancel returned;
\* without a cancel method on the input Reader it leaves the input Reader as
\* it is and returns without an error. It reads nothing, calls no function,
\* leaves the pending values as they are and does not call the matcher.
C33_TransformCancel ==
    /\ [][(top = "eval" /\ ncancel' = ncancel + 1) =>
            /\ ~cancelRet'.threw
            /\ (reader.cm # "none" =>
                    /\ Len(reader'.cancels) = Len(reader.cancels) + 1
                    /\ cancelRet'.value = CancelToken)
            /\ (reader.cm = "none" => reader' = reader /\ cancelRet'.value = Undefined)
            /\ reader'.index = reader.index
            /\ Len(subStreamReaderStack') = Len(subStreamReaderStack)
            /\ \A i \in 1..Len(subStreamReaderStack) :
                    /\ Len(subStreamReaderStack'[i].cancels)
                           = Len(subStreamReaderStack[i].cancels) + 1
                    /\ subStreamReaderStack'[i].index = subStreamReaderStack[i].index
            /\ calls' = calls /\ accum' = accum /\ pc' = pc]_vars
    /\ [][(mo.on /\ mo'.ncancel = mo.ncancel + 1) =>
            /\ (mo.input.id # "none" =>
                    /\ Len(mo'.cancels) = Len(mo.cancels) + 1
                    /\ mo'.cancelRet = CancelToken)
            /\ (mo.input.id = "none" => mo'.cancels = mo.cancels /\ mo'.cancelRet = Undefined)
            /\ mo'.curMatch = mo.curMatch
            /\ mo'.matcher = mo.matcher
            /\ mo'.i = mo.i /\ mo'.lowReads = mo.lowReads
            /\ mo'.out = mo.out /\ mo'.pc = mo.pc /\ mo'.state = mo.state]_vars

\* The Reader of evalTransform has been cancelled while the Reader of a
\* sub-stream was active: the sub-stream Reader and the input Reader have
\* each been cancelled once, the input Reader's result was returned.
C33_Witness ==
    /\ top = "eval"
    /\ input = ReaderObj("ok", <<StreamObj(<<Str("a"), Str("b")>>)>>)
    /\ ncancel = 1
    /\ Len(subStreamReaderStack) = 1
    /\ Len(subStreamReaderStack[1].cancels) = 1
    /\ Len(reader.cancels) = 1
    /\ cancelRet.value = CancelToken

====
